---- MODULE Spec2Model ----
(***************************************************************************)
(* A model of immich-analyze: the host failover router (ollama.rs,         *)
(* llamacpp.rs), the retry loop of analyze_image, the bounded batch        *)
(* dispatcher (file_processing.rs) and the debouncing watcher (monitor.rs).*)
(***************************************************************************)
EXTENDS Integers, Sequences, FiniteSets, TLC

VARIABLES
    \* ---- configuration (args.rs) and the clock -------------------------
    hosts,                \* args.hosts: the pool, a sequence of addresses
    unavailable_duration, \* args.unavailable_duration, in clock units
    interface,            \* args.interface: "Ollama" or "Llamacpp"
    now,                  \* Instant::now()
    \* ---- one host manager (OllamaHostManager / LlamaCppHostManager) ----
    unavailable_hosts,    \* HashMap<String, Instant>: a partial function
    selected,             \* the value of the last direct get_available_host call
    sel_same,             \* "same"/"diff": the last call against the call before
                          \* it, when no mark and no tick came between; else "NA"
    call_map,             \* the map as the last direct call found it
    call_now,             \* the clock at the last direct call
    \* ---- one run of analyze_image -----------------------------------
    pc,                   \* position of the run
    attempt,              \* _attempt of the for loop
    host,                 \* the host of the current attempt
    last_error,           \* last_error: "None" or an error
    outcome,              \* what analyze_image returned
    log,                  \* history: the hosts of the run's attempts, in order
    attempt_err,          \* history: the error of the latest attempt, or "None"
    selects,              \* history: get_available_host calls made by the run
    response,             \* history: the response the run returned on, if any
    dropped,              \* history: a retain of this run dropped an expired mark
    image,                \* the condition of the image file the run was given
    runs_started,         \* history: analyze_image runs started so far
    \* ---- the process, the thumbs directory and the store ---------------
    mode,                 \* "batch", "monitor" or "combined" (main.rs)
    process,              \* "running", or "exited"
    disk,                 \* the preview files under thumbs/
    ignore_existing,      \* args.ignore_existing
    store,                \* per asset id, its description in the database
    upserts,              \* history: per asset id, the upserts made
    \* ---- process_files_concurrently ------------------------------------
    max_concurrent,       \* args.max_concurrent
    batch_pc,             \* position of run_batch_mode
    files,                \* preview_files, the batch
    next_file,            \* paths taken from the stream so far
    brun,                 \* per index of files, the state of its future
    results,              \* the Vec that collect() builds
    \* ---- monitor_folder ------------------------------------------------
    event_cooldown,       \* config.event_cooldown, in clock units
    mon_pc,               \* position of the watch loop
    stop_signal,          \* SIGTERM or SIGINT was received and sent on stop_tx
    event_rx,             \* the events notify has queued
    last_events,          \* HashMap<String, Instant>: a partial function
    processing_files,     \* HashSet<String> behind the mutex
    tasks,                \* the spawned tasks that have not ended
    burst,                \* history: the filename of the latest qualifying
                          \* event handled while its run was in flight, and
                          \* how many such events came in a row in this drain
    \* ---- one call of process_new_file, with its stability wait --------
    file_write_timeout,   \* config.file_write_timeout, in clock units
    image_path,           \* the path the call was given
    file_size,            \* metadata.len() of the file now, or Missing
    new_file_pc,          \* position of the call
    start_time,           \* start_time
    last_size,            \* last_size
    stable_count,         \* stable_count
    polled,               \* history: what the latest polls observed
    analysis,             \* analysis, the Ok value of analyze_image
    new_file_result,      \* what the call returned
    run_did,              \* history: what the call did to the store and backend
    \* ---- one call of a function of utils.rs or of display_results -------
    util_pc,              \* position of the call
    filename,             \* the file name extract_uuid_from_preview_filename
                          \* is given, as the sequence of its parts
    asset_id,             \* what extract_uuid_from_preview_filename returned
    successful,           \* successful of display_results
    failed,               \* failed
    skipped,              \* skipped
    \* ---- tasks that call one host manager at the same time -------------
    guards,               \* the tasks that hold a MutexGuard of the map
    callers,              \* per task: its position, host and attempt
    \* ---- one POST with its two deadlines -------------------------------
    post,                 \* position, args.timeout, the timeout of the Client,
                          \* when the response comes, and what the match saw
    \* ---- what became of the events of a file in flight -----------------
    guard_note            \* history: "rejected" once the in-flight guard turned
                          \* an event away, "suppressed" once a later event
                          \* fell into the cooldown of that one after the run
                          \* had ended; "off" where it is not kept

host_vars == <<unavailable_hosts, selected, sel_same, call_map, call_now>>
run_vars == <<pc, attempt, host, last_error, outcome, log, attempt_err,
              selects, response, dropped, image,
              runs_started>>
cfg_vars == <<hosts, unavailable_duration, interface>>
env_vars == <<mode, process, disk, ignore_existing>>
db_vars == <<store, upserts>>
batch_vars == <<max_concurrent, batch_pc, files, next_file, brun, results>>
mon_vars == <<event_cooldown, mon_pc, stop_signal, event_rx,
             last_events, processing_files, tasks, burst>>
wait_vars == <<file_write_timeout, image_path, file_size, new_file_pc,
              start_time, last_size, stable_count, polled, analysis,
              new_file_result, run_did>>
util_vars == <<util_pc, filename, asset_id, successful, failed, skipped>>
lock_vars == <<guards, callers>>
net_vars == <<post>>
note_vars == <<guard_note>>
pipe_vars == <<env_vars, db_vars, batch_vars, mon_vars, wait_vars, util_vars,
               lock_vars, note_vars, net_vars>>
vars == <<hosts, unavailable_duration, interface, now, unavailable_hosts,
          selected, sel_same, call_map, call_now,
          pc, attempt, host, last_error, outcome, log, attempt_err, selects,
          response, dropped, image, runs_started,
          mode, process, disk, ignore_existing, store, upserts,
          max_concurrent, batch_pc, files, next_file, brun, results,
          event_cooldown, mon_pc, stop_signal, event_rx,
          last_events, processing_files, tasks, burst,
          file_write_timeout, image_path, file_size, new_file_pc,
          start_time, last_size, stable_count, polled, analysis,
          new_file_result, run_did,
          util_pc, filename, asset_id, successful, failed, skipped,
          guards, callers, post, guard_note>>
backend_vars == <<cfg_vars, now, host_vars, run_vars>>

(***************************************************************************)
(* Bounds of the model                                                     *)
(***************************************************************************)
MaxHosts == 3          \* longest pool
MaxTime == 2           \* the clock stops advancing here
MaxDuration == 2       \* largest unavailable_duration
MaxRuns == 2           \* analyze_image runs in one behaviour
MaxFiles == 3          \* most preview files under thumbs/
MaxConcurrent == 2     \* largest max_concurrent
MaxBurst == 5          \* events counted in one burst
MaxUpserts == 2        \* writes counted per asset id
MaxQueue == 1          \* events waiting in event_rx at once
MaxCooldown == 1       \* the event_cooldown when it is not zero
MaxSize == 2           \* largest file size
MaxTimeout == 3        \* largest file_write_timeout; beyond MaxTime it never elapses
MaxRunHosts == 2       \* longest pool of a pipeline run followed step by step
MaxName == 3           \* most parts of a file name
MaxResults == 3        \* longest list given to display_results

HostNames == {"h1", "h2", "h3"}
HostOrder == <<"h1", "h2", "h3">>
\* the pools up to renaming of the addresses (the code never looks into an
\* address): a pool names h1 first, and h3 only after h2; repeats are allowed
Pools ==
    {p \in UNION {[1..n -> HostNames] : n \in 0..MaxHosts} :
        \A i \in 1..Len(p) : \A k \in 2..3 :
            p[i] = HostOrder[k] => \E j \in 1..(i - 1) : p[j] = HostOrder[k - 1]}
Interfaces == {"Ollama", "Llamacpp"}
EmptyMap == [h \in {} |-> 0]
Range(s) == {s[i] : i \in 1..Len(s)}
Min(S) == CHOOSE x \in S : \A y \in S : x <= y

(***************************************************************************)
(* The host manager: get_available_host and mark_host_unavailable          *)
(***************************************************************************)
\* mutant of Retain: a mark is kept through the instant it expires (<=)
Retain_inclusive(u, t, d) == [h \in {k \in DOMAIN u : t - u[k] <= d} |-> u[h]]

\* unavailable.retain(|_, timestamp| now.duration_since(*timestamp) < duration)
Retain(u, t, d) == [h \in {k \in DOMAIN u : t - u[k] < d} |-> u[h]]

Max(S) == CHOOSE x \in S : \A y \in S : x >= y

\* mutant of FirstAvailable: the pool is searched from its end
FirstAvailable_last(pool, u) ==
    LET free == {i \in 1..Len(pool) : pool[i] \notin DOMAIN u}
    IN  IF free = {} THEN {} ELSE {pool[Max(free)]}

\* for host in &self.hosts { if !unavailable.contains_key(host) { return Ok(host) } }
FirstAvailable(pool, u) ==
    LET free == {i \in 1..Len(pool) : pool[i] \notin DOMAIN u}
    IN  IF free = {} THEN {} ELSE {pool[Min(free)]}

\* mutant of OldestUnavailable: max_by_key, the most recently marked host
OldestUnavailable_newest(u) ==
    {h \in DOMAIN u : \A k \in DOMAIN u : u[h] >= u[k]}

\* unavailable.iter().min_by_key(|(_, timestamp)| *timestamp): the iteration
\* order of a HashMap is unspecified, so any entry with the least timestamp
OldestUnavailable(u) == {h \in DOMAIN u : \A k \in DOMAIN u : u[h] <= u[k]}

\* mutant of HostChoices: the map is not consulted
HostChoices_sticky(pool, u) ==
    IF Len(pool) = 0 THEN {"AllHostsUnavailable"} ELSE {pool[1]}

\* the values get_available_host can return on the retained map u
HostChoices(pool, u) ==
    IF FirstAvailable(pool, u) # {} THEN FirstAvailable(pool, u)
    ELSE IF DOMAIN u # {} THEN OldestUnavailable(u)
    ELSE {"AllHostsUnavailable"}

\* mutant of Insert: the time of the first mark is kept (entry().or_insert)
Insert_keepFirst(u, h, t) ==
    [k \in DOMAIN u \cup {h} |-> IF k \in DOMAIN u THEN u[k] ELSE t]

\* unavailable.insert(host.to_string(), Instant::now())
Insert(u, h, t) == [k \in DOMAIN u \cup {h} |-> IF k = h THEN t ELSE u[k]]

\* a direct call of get_available_host on the manager
get_available_host ==
    /\ pc = "api"
    /\ LET u == Retain(unavailable_hosts, now, unavailable_duration)
           untouched == /\ selected # "NoCall"
                        /\ call_now = now
                        /\ unavailable_hosts
                             = Retain(call_map, call_now, unavailable_duration)
       IN  /\ \E res \in HostChoices(hosts, u) :
                /\ selected' = res
                /\ sel_same' = IF ~untouched THEN "NA"
                               ELSE IF res = selected THEN "same" ELSE "diff"
           /\ unavailable_hosts' = u
    /\ call_map' = unavailable_hosts
    /\ call_now' = now
    /\ UNCHANGED <<pipe_vars, cfg_vars, now, run_vars>>

\* a direct call of mark_host_unavailable; callers pass a host of the pool
mark_host_unavailable ==
    /\ pc = "api"
    /\ \E h \in Range(hosts) :
        unavailable_hosts' = Insert(unavailable_hosts, h, now)
    /\ UNCHANGED <<pipe_vars, cfg_vars, now, selected, sel_same, call_map, call_now,
                   run_vars>>

\* time passes
Tick ==
    /\ now < MaxTime
    /\ now' = now + 1
    /\ UNCHANGED <<pipe_vars, cfg_vars, host_vars, run_vars>>

(***************************************************************************)
(* analyze_image: the retry loop over the pool                             *)
(***************************************************************************)
\* response text: a sequence over a blank and a letter
MaxText == 2
Chars == {" ", "a"}
Texts == UNION {[1..n -> Chars] : n \in 0..MaxText}

RECURSIVE TrimStart(_)
TrimStart(s) == IF s # <<>> /\ Head(s) = " " THEN TrimStart(Tail(s)) ELSE s
RECURSIVE TrimEnd(_)
TrimEnd(s) ==
    IF s # <<>> /\ s[Len(s)] = " " THEN TrimEnd(SubSeq(s, 1, Len(s) - 1)) ELSE s
\* mutant of Trim: only the leading whitespace is removed (trim_start)
Trim_startOnly(s) == TrimStart(s)

\* str::trim
Trim(s) == TrimEnd(TrimStart(s))

\* the conditions of the image file analyze_image distinguishes
ImageKinds == {"ok", "invalid_uuid", "no_metadata", "empty", "unreadable"}

\* what one POST can come back with
Responses ==
    {[kind |-> k, parse |-> "none", content |-> <<>>] :
        k \in {"timeout", "transport", "status", "body_unreadable", "no_choices"}}
    \cup {[kind |-> "body", parse |-> p, content |-> c] :
            p \in {"strict", "fallback", "none"}, c \in Texts}

NoResponse == [kind |-> "none", parse |-> "none", content |-> <<>>]

Ok(d) == [kind |-> "Ok", description |-> d, error |-> "None"]
Err(e) == [kind |-> "Err", description |-> <<>>, error |-> e]
NoOutcome == [kind |-> "None", description |-> <<>>, error |-> "None"]

\* Err(_) of tokio::time::timeout
TimeoutError(i) ==
    IF i = "Ollama" THEN "OllamaRequestTimeout" ELSE "LlamaCppRequestTimeout"

\* mutant of AttemptResult: the fallback parse accepts an empty text
AttemptResult_acceptEmpty(i, resp) ==
    CASE resp.kind = "timeout" -> [ret |-> NoOutcome, err |-> TimeoutError(i)]
      [] resp.kind = "transport" -> [ret |-> NoOutcome, err |-> "HttpError0"]
      [] resp.kind = "status" -> [ret |-> NoOutcome, err |-> "HttpError500"]
      [] resp.kind = "body_unreadable" ->
            [ret |-> Err("ProcessingError"), err |-> "ProcessingError"]
      [] resp.kind = "no_choices" ->
            IF i = "Llamacpp" THEN [ret |-> NoOutcome, err |-> "EmptyResponse"]
            ELSE [ret |-> NoOutcome, err |-> "JsonParsing"]
      [] resp.kind = "body" /\ resp.parse = "strict" ->
            IF Trim(resp.content) = <<>>
            THEN [ret |-> NoOutcome, err |-> "EmptyResponse"]
            ELSE [ret |-> Ok(Trim(resp.content)), err |-> "None"]
      [] resp.kind = "body" /\ resp.parse = "fallback" ->
            [ret |-> Ok(Trim(resp.content)), err |-> "None"]
      [] OTHER -> [ret |-> NoOutcome, err |-> "JsonParsing"]

\* the match on the response of one attempt. ret: what analyze_image returns
\* at once (a description, or the error `?` leaves with), NoOutcome when the
\* loop goes on; err: the attempt's error, "None" when it succeeded
AttemptResult(i, resp) ==
    CASE resp.kind = "timeout" -> [ret |-> NoOutcome, err |-> TimeoutError(i)]
      [] resp.kind = "transport" -> [ret |-> NoOutcome, err |-> "HttpError0"]
      [] resp.kind = "status" -> [ret |-> NoOutcome, err |-> "HttpError500"]
      [] resp.kind = "body_unreadable" ->
            [ret |-> Err("ProcessingError"), err |-> "ProcessingError"]
      [] resp.kind = "no_choices" ->
            IF i = "Llamacpp" THEN [ret |-> NoOutcome, err |-> "EmptyResponse"]
            ELSE [ret |-> NoOutcome, err |-> "JsonParsing"]
      [] resp.kind = "body" /\ resp.parse = "strict" ->
            IF Trim(resp.content) = <<>>
            THEN [ret |-> NoOutcome, err |-> "EmptyResponse"]
            ELSE [ret |-> Ok(Trim(resp.content)), err |-> "None"]
      [] resp.kind = "body" /\ resp.parse = "fallback" ->
            IF Trim(resp.content) # <<>>
            THEN [ret |-> Ok(Trim(resp.content)), err |-> "None"]
            ELSE [ret |-> NoOutcome, err |-> "JsonParsing"]
      [] OTHER -> [ret |-> NoOutcome, err |-> "JsonParsing"]

\* mutant of LoopResult: no error stands in for a run without attempts
LoopResult_noDefault(e) == Err(e)

\* mutant of LoopResult: the recorded error is ignored
LoopResult_ignore(e) == Err("AllHostsUnavailable")

\* last_error.unwrap_or(AllHostsUnavailable)
LoopResult(e) == IF e = "None" THEN Err("AllHostsUnavailable") ELSE Err(e)

\* mutant of Attempts: one attempt more than the pool has hosts
Attempts_oneMore(pool) == Len(pool) + 1

\* for _attempt in 0..host_manager.hosts.len(): the iterations of the loop
Attempts(pool) == Len(pool)

\* the analyze_image a run calls: process_file matches on the interface;
\* process_new_file calls ollama::analyze_image on an OllamaHostManager,
\* whatever the interface
Variant == IF new_file_pc = "analyzing" THEN "Ollama" ELSE interface

\* the calls of mark_host_unavailable after a failed attempt
MarksAfterFailure(i) == IF i = "Llamacpp" THEN 2 ELSE 1

\* process_file builds a manager and calls analyze_image, which checks the
\* file before the loop
analyze_start ==
    /\ pc \in {"idle", "done"}
    /\ runs_started < MaxRuns
    /\ runs_started' = runs_started + 1
    /\ \E k \in ImageKinds :
        /\ image' = k
        /\ outcome' = CASE k = "invalid_uuid" -> Err("InvalidUuid")
                        [] k = "no_metadata" -> Err("ProcessingError")
                        [] k = "empty" -> Err("EmptyFile")
                        [] k = "unreadable" -> Err("ProcessingError")
                        [] OTHER -> NoOutcome
        /\ pc' = IF k = "ok" THEN "loop" ELSE "done"
    /\ unavailable_hosts' = EmptyMap
    /\ attempt' = 0
    /\ host' = "NoHost"
    /\ last_error' = "None"
    /\ log' = <<>>
    /\ attempt_err' = "None"
    /\ selects' = 0
    /\ response' = NoResponse
    /\ dropped' = FALSE
    /\ UNCHANGED <<pipe_vars, cfg_vars, now, selected, sel_same, call_map, call_now>>

\* the head of the for loop: the next attempt asks the manager for a host
loop_select ==
    /\ pc = "loop"
    /\ attempt < Attempts(hosts)
    /\ selects' = selects + 1
    /\ LET u == Retain(unavailable_hosts, now, unavailable_duration)
       IN  /\ unavailable_hosts' = u
           /\ dropped' = (dropped \/ u # unavailable_hosts)
           /\ \E res \in HostChoices(hosts, u) :
                IF res = "AllHostsUnavailable"
                THEN /\ outcome' = Err(res)
                     /\ pc' = "done"
                     /\ host' = host
                ELSE /\ host' = res
                     /\ pc' = "send"
                     /\ outcome' = outcome
    /\ UNCHANGED <<pipe_vars, cfg_vars, now, selected, sel_same, call_map, call_now,
                   attempt, last_error, log, attempt_err, response, image,
                   runs_started>>

\* the for loop is exhausted
loop_exit ==
    /\ pc = "loop"
    /\ attempt >= Attempts(hosts)
    /\ outcome' = LoopResult(last_error)
    /\ pc' = "done"
    /\ UNCHANGED <<pipe_vars, cfg_vars, now, host_vars, attempt, host, last_error, log,
                   attempt_err, selects, response, dropped, image,
                   runs_started>>

\* the POST to the host and the handling of what comes back
attempt_response ==
    /\ pc = "send"
    /\ \E resp \in Responses :
        LET r == AttemptResult(Variant, resp)
        IN  /\ log' = Append(log, host)
            /\ attempt_err' = r.err
            /\ response' = IF r.ret.kind = "None" THEN NoResponse ELSE resp
            /\ IF r.ret.kind # "None"
               THEN /\ outcome' = r.ret
                    /\ pc' = "done"
                    /\ last_error' = last_error
               ELSE /\ last_error' = r.err
                    /\ pc' = "mark1"
                    /\ outcome' = outcome
    /\ UNCHANGED <<pipe_vars, cfg_vars, now, host_vars, attempt, host, selects, dropped,
                   image, runs_started>>

\* mutant of MarkedKey: the URL of the request is marked, not the address
MarkedKey_url(h) ==
    CASE h = "h1" -> "h1/api/generate"
      [] h = "h2" -> "h2/api/generate"
      [] OTHER -> "h3/api/generate"

\* the key mark_host_unavailable is given: &host, the address that
\* get_available_host returned for this attempt
MarkedKey(h) == h

\* host_manager.mark_host_unavailable(&host) at the end of the loop body:
\* once in ollama.rs, twice in llamacpp.rs
mark_failed_host ==
    /\ pc \in {"mark1", "mark2"}
    /\ unavailable_hosts' = Insert(unavailable_hosts, MarkedKey(host), now)
    /\ IF pc = "mark1" /\ MarksAfterFailure(Variant) = 2
       THEN /\ pc' = "mark2"
            /\ attempt' = attempt
       ELSE /\ pc' = "loop"
            /\ attempt' = attempt + 1
    /\ UNCHANGED <<pipe_vars, cfg_vars, now, selected, sel_same, call_map, call_now,
                   host, last_error, outcome, log, attempt_err, selects,
                   response, dropped, image, runs_started>>

(***************************************************************************)
(* The thumbs directory, the file names and the store                      *)
(***************************************************************************)
Paths == {"p1", "p2", "p3", "p4"}
Assets == {"a1", "a2"}

\* path.file_name(): two names carry the id a1, one a2, one no id at all
Filename(p) ==
    CASE p = "p1" -> "a1-preview.jpeg"
      [] p = "p2" -> "a1-preview.webp"
      [] p = "p3" -> "a2-preview.jpeg"
      [] OTHER -> "xx-preview.jpeg"

\* A file name is read as the sequence of its parts. A part is an identifier
\* in canonical form (lowercase hex digits, dashed 8-4-4-4-12: "a1", "a2"),
\* the text "-preview", or a run of other characters that holds no
\* identifier: an extension, an identifier spelled with uppercase digits
\* ("A1"), a malformed identifier ("xx"), filler ("_").
NameParts(f) ==
    CASE f = "a1-preview.jpeg" -> <<"a1", "-preview", ".jpeg">>
      [] f = "a1-preview.webp" -> <<"a1", "-preview", ".webp">>
      [] f = "a2-preview.jpeg" -> <<"a2", "-preview", ".jpeg">>
      [] f = "a2-thumbnail.webp" -> <<"a2", "-thumbnail", ".webp">>
      [] OTHER -> <<"xx", "-preview", ".jpeg">>

\* the two regular expressions, as sequences of part classes: "uuid" stands
\* for ([0-9a-f]{8}-[0-9a-f]{4}-[0-9a-f]{4}-[0-9a-f]{4}-[0-9a-f]{12})
PREVIEW_PATTERN == <<"uuid", "-preview">>
UUID_PATTERN == <<"uuid">>

PartMatches(class, part) ==
    IF class = "uuid" THEN part \in Assets ELSE part = class

\* the pattern matches the name from part i on
MatchesAt(pattern, parts, i) ==
    /\ i + Len(pattern) - 1 <= Len(parts)
    /\ \A k \in 1..Len(pattern) : PartMatches(pattern[k], parts[i + k - 1])

\* Regex::captures: the position of the leftmost match, 0 when there is none;
\* group 1 is the part at that position
captures(pattern, parts) ==
    LET at == {i \in 1..Len(parts) : MatchesAt(pattern, parts, i)}
    IN  IF at = {} THEN 0 ELSE Min(at)

\* Uuid::from_str(..).map_err(|_| InvalidUuid)
Uuid_from_str(part) == IF part \in Assets THEN part ELSE "InvalidUuid"

\* mutant of extract_uuid_from_preview_filename: without the second pattern
extract_uuid_from_preview_filename_previewOnly(parts) ==
    LET i == captures(PREVIEW_PATTERN, parts)
    IN  IF i # 0 THEN Uuid_from_str(parts[i]) ELSE "InvalidUuid"

\* the identifier of a file name given as its parts, or "InvalidUuid": the
\* match of PREVIEW_PATTERN if there is one, else the match of UUID_PATTERN
extract_uuid_from_preview_filename(parts) ==
    LET i == captures(PREVIEW_PATTERN, parts)
        j == captures(UUID_PATTERN, parts)
    IN  IF i # 0 THEN Uuid_from_str(parts[i])
        ELSE IF j # 0 THEN Uuid_from_str(parts[j])
        ELSE "InvalidUuid"

\* the identifier of each path of the thumbs directory
AssetIds ==
    [p \in Paths |-> extract_uuid_from_preview_filename(NameParts(Filename(p)))]

AssetOf(p) == AssetIds[p]

NoDesc == <<>>
OldDesc == <<"a", "a">>

\* database::asset_has_description
asset_has_description(st, a) == st[a] # NoDesc

\* database::update_or_create_asset_description
update_or_create_asset_description(st, a, d) == [st EXCEPT ![a] = d]

\* what analyze_image can return to a pipeline run: a description, an error of
\* the file, the last error of the retry loop, or the empty pool
AnalyzeErrors == {"EmptyFile", "HttpError500", "AllHostsUnavailable"}
AnalyzeOutcomes == {Ok(<<"a">>)} \cup {Err(e) : e \in AnalyzeErrors}

(***************************************************************************)
(* run_batch_mode and process_files_concurrently                           *)
(***************************************************************************)
\* the orders in which read_dir can list a set of files
Orderings(S) ==
    {f \in [1..Cardinality(S) -> S] : \A i, j \in 1..Cardinality(S) :
                                          i # j => f[i] # f[j]}

\* the futures in the buffer of buffer_unordered
InProgress ==
    {i \in 1..Len(files) : brun[i].pc \in {"dupcheck", "analyze", "upsert"}}

\* mutant of CanPull: the buffer has no cap
CanPull_uncapped ==
    /\ batch_pc = "dispatch"
    /\ next_file < Len(files)

\* BufferUnordered::poll_next fills the buffer before it polls a future:
\* while in_progress_queue.len() < max, take the next future of the stream
CanPull ==
    /\ batch_pc = "dispatch"
    /\ next_file < Len(files)
    /\ Cardinality(InProgress) < max_concurrent

\* mutant of Collected: an error outcome is not collected
Collected_okOnly(rs, i, res) ==
    IF res.kind = "Err" THEN rs
    ELSE Append(rs, [filename |-> Filename(files[i]), result |-> res, idx |-> i])

\* the future of files[i] returns (filename, result) and collect() pushes it;
\* idx is history
Collected(rs, i, res) ==
    Append(rs, [filename |-> Filename(files[i]), result |-> res, idx |-> i])

\* mutant of PersistResult: the error of the upsert is dropped
PersistResult_swallow(db_ok, v) == v

\* update_or_create_asset_description(..).await? followed by the Ok value v
PersistResult(db_ok, v) == IF db_ok THEN v ELSE Err("DatabaseError")

Complete(i, res) ==
    /\ brun' = [brun EXCEPT ![i] = [pc |-> "complete", result |-> res]]
    /\ results' = Collected(results, i, res)

Advance(i, to, res) ==
    /\ brun' = [brun EXCEPT ![i] = [pc |-> to, result |-> res]]
    /\ results' = results

\* run_batch_mode up to the call of process_files_concurrently:
\* get_immich_preview_files, then handle_no_files
run_batch_mode ==
    /\ process = "running"
    /\ batch_pc = "scan"
    /\ \E order \in Orderings(disk) :
        /\ files' = order
        /\ brun' = [i \in 1..Len(order) |-> [pc |-> "queued", result |-> NoOutcome]]
    /\ IF disk = {}
       THEN /\ process' = "exited"
            /\ batch_pc' = batch_pc
       ELSE /\ process' = process
            /\ batch_pc' = "dispatch"
    /\ UNCHANGED <<util_vars, lock_vars, note_vars, net_vars, mode, disk, ignore_existing, db_vars, max_concurrent, next_file,
                   results, mon_vars, wait_vars, backend_vars>>

\* the next path is taken from the stream and its future polled for the
\* first time: up to the store query (ignore_existing off) or the first POST
start_run ==
    /\ process = "running"
    /\ CanPull
    /\ next_file' = next_file + 1
    /\ LET i == next_file + 1
       IN  IF AssetOf(files[i]) = "InvalidUuid"
           THEN Complete(i, Err("InvalidUuid"))
           ELSE Advance(i, IF ignore_existing THEN "analyze" ELSE "dupcheck",
                        NoOutcome)
    /\ UNCHANGED <<util_vars, lock_vars, note_vars, net_vars, env_vars, db_vars, max_concurrent, batch_pc, files,
                   mon_vars, wait_vars, backend_vars>>

\* process_file_with_existing_check: asset_has_description answers
dupcheck_answer ==
    /\ process = "running"
    /\ batch_pc = "dispatch"
    /\ ~CanPull
    /\ \E i \in InProgress :
        /\ brun[i].pc = "dupcheck"
        /\ \E db_ok \in BOOLEAN :
            IF ~db_ok THEN Complete(i, Err("DatabaseError"))
            ELSE IF asset_has_description(store, AssetOf(files[i]))
            THEN Complete(i, Err("AlreadyProcessed"))
            ELSE Advance(i, "analyze", NoOutcome)
    /\ UNCHANGED <<util_vars, lock_vars, note_vars, net_vars, env_vars, db_vars, max_concurrent, batch_pc, files,
                   next_file, mon_vars, wait_vars, backend_vars>>

\* process_file: analyze_image returns
analysis_done ==
    /\ process = "running"
    /\ batch_pc = "dispatch"
    /\ ~CanPull
    /\ \E i \in InProgress :
        /\ brun[i].pc = "analyze"
        /\ \E o \in AnalyzeOutcomes :
            IF o.kind = "Err" THEN Complete(i, o) ELSE Advance(i, "upsert", o)
    /\ UNCHANGED <<util_vars, lock_vars, note_vars, net_vars, env_vars, db_vars, max_concurrent, batch_pc, files,
                   next_file, mon_vars, wait_vars, backend_vars>>

\* process_file: update_or_create_asset_description returns
upsert_done ==
    /\ process = "running"
    /\ batch_pc = "dispatch"
    /\ ~CanPull
    /\ \E i \in InProgress :
        /\ brun[i].pc = "upsert"
        /\ \E db_ok \in BOOLEAN :
            /\ IF db_ok
               THEN /\ store' = update_or_create_asset_description(
                                   store, AssetOf(files[i]),
                                   brun[i].result.description)
                    /\ upserts' = [upserts EXCEPT ![AssetOf(files[i])] =
                                                     Min({@ + 1, MaxUpserts})]
               ELSE UNCHANGED db_vars
            /\ Complete(i, PersistResult(db_ok, brun[i].result))
    /\ UNCHANGED <<util_vars, lock_vars, note_vars, net_vars, env_vars, max_concurrent, batch_pc, files, next_file,
                   mon_vars, wait_vars, backend_vars>>

\* the stream is exhausted and the buffer empty: collect() returns
batch_return ==
    /\ process = "running"
    /\ batch_pc = "dispatch"
    /\ next_file = Len(files)
    /\ InProgress = {}
    /\ batch_pc' = "returned"
    /\ UNCHANGED <<util_vars, lock_vars, note_vars, net_vars, env_vars, db_vars, max_concurrent, files, next_file, brun,
                   results, mon_vars, wait_vars, backend_vars>>

(***************************************************************************)
(* monitor_folder and process_new_file                                     *)
(***************************************************************************)
\* the path of an event whose file name lacks the marker
NoMarkerPath == "p5"
EventPaths == Paths \cup {NoMarkerPath}

\* path.file_name() of an event's path
EventFilename(p) == IF p = NoMarkerPath THEN "a2-thumbnail.webp" ELSE Filename(p)

\* filename.contains("-preview.")
HasMarker(f) == f # "a2-thumbnail.webp"

\* the events notify delivers for the files on disk: a create event and an
\* event of another kind for one file, a data-modify event for a second one,
\* and a create event for a name without the marker
FsEvents ==
    {e \in {[kind |-> "create", path |-> "p1"],
            [kind |-> "other", path |-> "p1"],
            [kind |-> "modify_data", path |-> "p2"],
            [kind |-> "create", path |-> NoMarkerPath]} :
        e.path \in disk \cup {NoMarkerPath}}

\* mutant of Qualifies: the kind of the event is not looked at
Qualifies_anyKind(e) ==
    /\ e.path \in disk \cup {NoMarkerPath}
    /\ HasMarker(EventFilename(e.path))

\* the filter of the watch loop: the event kind, path.is_file() and the marker
Qualifies(e) ==
    /\ e.kind \in {"create", "modify_data"}
    /\ e.path \in disk \cup {NoMarkerPath}
    /\ HasMarker(EventFilename(e.path))

\* mutant of InCooldown: no event is ever inside the cooldown
InCooldown_never(le, f, t) == FALSE

\* mutant of InCooldown: an event exactly one cooldown later is still inside
InCooldown_inclusive(le, f, t) == f \in DOMAIN le /\ t - le[f] <= event_cooldown

\* last_events.get(&filename) is Some and less than the cooldown old
InCooldown(le, f, t) == f \in DOMAIN le /\ t - le[f] < event_cooldown

\* mutant of Suppressed: a suppressed event restarts the cooldown
Suppressed_refresh(le, f, t) == Insert(le, f, t)

\* the debounce map after an event inside the cooldown: `continue` comes
\* before last_events.insert
Suppressed(le, f, t) == le

\* mutant of AlreadyProcessing: the in-flight guard never holds
AlreadyProcessing_never(pf, f) == FALSE

\* files.contains(&filename) on processing_files
AlreadyProcessing(pf, f) == f \in pf

\* mutant of Debounced: the entry is written after the look at
\* processing_files, for an event that is dispatched only
Debounced_afterGuard(le, f, t, inflight) ==
    IF inflight THEN le ELSE Insert(le, f, t)

\* last_events.insert(filename.clone(), now) for an event outside the
\* cooldown: it comes before the look at processing_files, so the entry is
\* written whether the file is in flight or not
Debounced(le, f, t, inflight) == Insert(le, f, t)

\* mutant of Queued: the filename is not inserted when the task is spawned
Queued_later(pf, f) == pf

\* files.insert(filename.clone()), just before tokio::spawn
Queued(pf, f) == pf \cup {f}

\* the tasks that are inside process_new_file
RunningTasks == {t \in tasks : t.pc # "remove"}

NoBurst == [file |-> "none", count |-> 0]

\* one more qualifying event for f was handled while f was in flight
CountUp(b, f) ==
    [file |-> f,
     count |-> IF b.file = f THEN Min({b.count + 1, MaxBurst}) ELSE 1]

\* the handle of a new task for path p: the smallest one that no live task of
\* the same path holds
FreshId(p) ==
    Min({i \in 1..(Cardinality(tasks) + 1) :
            \A t \in tasks : t.path = p => t.id # i})

\* notify queues an event
fs_event ==
    /\ process = "running"
    /\ mon_pc \in {"select", "drain"}
    /\ Len(event_rx) < MaxQueue
    /\ \E e \in FsEvents : event_rx' = Append(event_rx, e)
    /\ UNCHANGED <<util_vars, lock_vars, note_vars, net_vars, env_vars, db_vars, batch_vars, event_cooldown, mon_pc,
                   stop_signal, last_events, processing_files, tasks, burst,
                   wait_vars, backend_vars>>

\* SIGTERM or SIGINT: the signal task sends on stop_tx
signal ==
    /\ process = "running"
    /\ mon_pc \in {"select", "drain"}
    /\ ~stop_signal
    /\ stop_signal' = TRUE
    /\ UNCHANGED <<util_vars, lock_vars, note_vars, net_vars, env_vars, db_vars, batch_vars, event_cooldown, mon_pc,
                   event_rx, last_events, processing_files, tasks,
                   burst, wait_vars, backend_vars>>

\* select!: the interval ticks and the drain of event_rx begins
tick_begin ==
    /\ process = "running"
    /\ mon_pc = "select"
    /\ mon_pc' = "drain"
    /\ UNCHANGED <<util_vars, lock_vars, note_vars, net_vars, env_vars, db_vars, batch_vars, event_cooldown, stop_signal,
                   event_rx, last_events, processing_files, tasks,
                   burst, wait_vars, backend_vars>>

\* mutant of CanStop: the stop is taken in the middle of a drain as well
CanStop_midDrain == mon_pc \in {"select", "drain"} /\ stop_signal

\* the stop branch of select! can be taken: the loop is at select!, where the
\* body of the tick branch has run to its end, and stop_rx holds a message
CanStop == mon_pc = "select" /\ stop_signal

\* select!: stop_rx.recv() yields, the watcher is dropped, monitor_folder returns
monitor_stop ==
    /\ process = "running"
    /\ CanStop
    /\ mon_pc' = "stopped"
    /\ UNCHANGED <<util_vars, lock_vars, note_vars, net_vars, env_vars, db_vars, batch_vars, event_cooldown, stop_signal,
                   event_rx, last_events, processing_files, tasks,
                   burst, wait_vars, backend_vars>>

\* what the handling of event e for filename f leaves in guard_note
Noted(e, f) ==
    IF guard_note = "off" \/ ~Qualifies(e) THEN guard_note
    ELSE IF InCooldown(last_events, f, now)
    THEN IF guard_note = "rejected" /\ ~AlreadyProcessing(processing_files, f)
         THEN "suppressed" ELSE guard_note
    ELSE IF AlreadyProcessing(processing_files, f) THEN "rejected" ELSE "none"

\* one round of `while let Ok(event) = event_rx.try_recv()`
handle_event ==
    /\ process = "running"
    /\ mon_pc = "drain"
    /\ event_rx # <<>>
    /\ event_rx' = Tail(event_rx)
    /\ guard_note' = Noted(Head(event_rx), EventFilename(Head(event_rx).path))
    /\ LET e == Head(event_rx)
           f == EventFilename(e.path)
       IN  IF ~Qualifies(e) \/ InCooldown(last_events, f, now)
           THEN /\ last_events' = IF Qualifies(e)
                                   THEN Suppressed(last_events, f, now)
                                   ELSE last_events
                /\ UNCHANGED <<processing_files, tasks>>
                /\ burst' = IF Qualifies(e) /\ f \in processing_files
                            THEN CountUp(burst, f) ELSE burst
           ELSE /\ last_events' = Debounced(last_events, f, now,
                                            AlreadyProcessing(processing_files, f))
                /\ IF AlreadyProcessing(processing_files, f)
                   THEN /\ UNCHANGED <<processing_files, tasks>>
                        /\ burst' = CountUp(burst, f)
                   ELSE /\ processing_files' = Queued(processing_files, f)
                        /\ tasks' = tasks \cup
                              {[id |-> FreshId(e.path), path |-> e.path,
                                pc |-> "stability", analysis |-> NoOutcome]}
                        /\ burst' = IF burst.file = f THEN NoBurst ELSE burst
    /\ UNCHANGED <<util_vars, lock_vars, net_vars, env_vars, db_vars, batch_vars, event_cooldown, mon_pc,
                   stop_signal, wait_vars, backend_vars>>

\* try_recv finds the queue empty: back to select!
drain_end ==
    /\ process = "running"
    /\ mon_pc = "drain"
    /\ event_rx = <<>>
    /\ mon_pc' = "select"
    /\ burst' = NoBurst
    /\ UNCHANGED <<util_vars, lock_vars, note_vars, net_vars, env_vars, db_vars, batch_vars, event_cooldown, stop_signal,
                   event_rx, last_events, processing_files, tasks,
                   wait_vars, backend_vars>>

\* mutant of AfterRun: a run that returned an error ends its task at once
AfterRun_errorLeaks(ok) == IF ok THEN "remove" ELSE "leaked"

\* where the spawned task stands once process_new_file has returned, with
\* Ok (ok) or with an Err: at the block that removes the filename, which
\* comes before the result is looked at
AfterRun(ok) == "remove"

TaskTo(t, to, a) ==
    tasks' = (tasks \ {t}) \cup {[id |-> t.id, path |-> t.path, pc |-> to,
                                  analysis |-> a]}

\* process_new_file: the stability wait ends, by the timeout or with a stable
\* size; a stable file goes on to the id and the store query or the first POST
stability_done ==
    /\ process = "running"
    /\ \E t \in tasks :
        /\ t.pc = "stability"
        /\ \E stable \in BOOLEAN :
            IF ~stable \/ AssetOf(t.path) = "InvalidUuid"
            THEN TaskTo(t, AfterRun(FALSE), NoOutcome)
            ELSE TaskTo(t, IF ignore_existing THEN "analyze" ELSE "dupcheck",
                        NoOutcome)
    /\ UNCHANGED <<util_vars, lock_vars, note_vars, net_vars, env_vars, db_vars, batch_vars, event_cooldown, mon_pc,
                   stop_signal, event_rx, last_events,
                   processing_files, burst, wait_vars, backend_vars>>

\* process_new_file: asset_has_description answers
task_dupcheck ==
    /\ process = "running"
    /\ \E t \in tasks :
        /\ t.pc = "dupcheck"
        /\ \E db_ok \in BOOLEAN :
            IF ~db_ok \/ asset_has_description(store, AssetOf(t.path))
            THEN TaskTo(t, AfterRun(db_ok), NoOutcome)
            ELSE TaskTo(t, "analyze", NoOutcome)
    /\ UNCHANGED <<util_vars, lock_vars, note_vars, net_vars, env_vars, db_vars, batch_vars, event_cooldown, mon_pc,
                   stop_signal, event_rx, last_events,
                   processing_files, burst, wait_vars, backend_vars>>

\* process_new_file: analyze_image returns
task_analysis ==
    /\ process = "running"
    /\ \E t \in tasks :
        /\ t.pc = "analyze"
        /\ \E o \in AnalyzeOutcomes :
            IF o.kind = "Err" THEN TaskTo(t, AfterRun(FALSE), NoOutcome)
            ELSE TaskTo(t, "upsert", o)
    /\ UNCHANGED <<util_vars, lock_vars, note_vars, net_vars, env_vars, db_vars, batch_vars, event_cooldown, mon_pc,
                   stop_signal, event_rx, last_events,
                   processing_files, burst, wait_vars, backend_vars>>

\* process_new_file: update_or_create_asset_description returns
task_upsert ==
    /\ process = "running"
    /\ \E t \in tasks :
        /\ t.pc = "upsert"
        /\ \E db_ok \in BOOLEAN :
            /\ IF db_ok
               THEN /\ store' = update_or_create_asset_description(
                                   store, AssetOf(t.path), t.analysis.description)
                    /\ upserts' = [upserts EXCEPT ![AssetOf(t.path)] = Min({@ + 1, MaxUpserts})]
               ELSE UNCHANGED db_vars
            /\ TaskTo(t, AfterRun(db_ok), NoOutcome)
    /\ UNCHANGED <<util_vars, lock_vars, note_vars, net_vars, env_vars, batch_vars, event_cooldown, mon_pc,
                   stop_signal, event_rx, last_events,
                   processing_files, burst, wait_vars, backend_vars>>

\* the spawned task after process_new_file returned: files.remove(&filename)
task_remove ==
    /\ process = "running"
    /\ \E t \in tasks :
        /\ t.pc = "remove"
        /\ tasks' = tasks \ {t}
        /\ processing_files' = processing_files \ {EventFilename(t.path)}
        /\ burst' = IF burst.file = EventFilename(t.path) THEN NoBurst ELSE burst
    /\ UNCHANGED <<util_vars, lock_vars, note_vars, net_vars, env_vars, db_vars, batch_vars, event_cooldown, mon_pc,
                   stop_signal, event_rx, last_events, wait_vars, backend_vars>>

\* main returns once the mode's function has returned (combined mode awaits
\* the batch task after the watcher); the runtime is dropped with it
main_return ==
    /\ process = "running"
    /\ CASE mode = "batch" -> batch_pc = "returned"
         [] mode = "monitor" -> mon_pc = "stopped"
         [] OTHER -> mon_pc = "stopped" /\ batch_pc = "returned"
    /\ process' = "exited"
    /\ UNCHANGED <<util_vars, lock_vars, note_vars, net_vars, mode, disk, ignore_existing, db_vars, batch_vars, mon_vars,
                   wait_vars, backend_vars>>

(***************************************************************************)
(* process_new_file in detail: the stability wait and what follows it      *)
(***************************************************************************)
\* std::fs::metadata(image_path) is an Err
Missing == -1
Sizes == 0..MaxSize

\* the polls that stable_count has to reach
StablePolls == 3

\* start_time.elapsed()
Elapsed == now - start_time

\* the latest StablePolls observations, the newest last
Observe(seq, x) ==
    LET all == Append(seq, x)
    IN  IF Len(all) <= StablePolls THEN all
        ELSE SubSeq(all, Len(all) - StablePolls + 1, Len(all))

\* mutant of TimedOut: the check after the loop never fires
TimedOut_never(e, t) == FALSE

\* start_time.elapsed() >= timeout_duration
TimedOut(e, t) == e >= t

\* another process writes, truncates, removes or recreates the file
file_write ==
    /\ new_file_pc \in {"loop", "sleep"}
    /\ \E x \in (Sizes \cup {Missing}) \ {file_size} : file_size' = x
    /\ UNCHANGED <<util_vars, lock_vars, note_vars, net_vars, env_vars, db_vars, batch_vars, mon_vars, file_write_timeout,
                   analysis, image_path, new_file_pc, start_time, last_size, stable_count,
                   polled, new_file_result, run_did, backend_vars>>

\* one round of the while loop up to its sleep: the size is read and compared
poll_size ==
    /\ new_file_pc = "loop"
    /\ Elapsed < file_write_timeout
    /\ polled' = Observe(polled, file_size)
    /\ IF file_size = Missing
       THEN /\ UNCHANGED <<last_size, stable_count>>
            /\ new_file_pc' = "sleep"
       ELSE IF file_size = last_size /\ file_size > 0
       THEN /\ stable_count' = stable_count + 1
            /\ last_size' = last_size
            /\ new_file_pc' = IF stable_count + 1 >= StablePolls THEN "check"
                              ELSE "sleep"
       ELSE /\ stable_count' = 0
            /\ last_size' = file_size
            /\ new_file_pc' = "sleep"
    /\ UNCHANGED <<util_vars, lock_vars, note_vars, net_vars, env_vars, db_vars, batch_vars, mon_vars, file_write_timeout,
                   analysis, image_path, file_size, start_time, new_file_result, run_did,
                   backend_vars>>

\* tokio::time::sleep(check_interval) returns
sleep_done ==
    /\ new_file_pc = "sleep"
    /\ new_file_pc' = "loop"
    /\ UNCHANGED <<util_vars, lock_vars, note_vars, net_vars, env_vars, db_vars, batch_vars, mon_vars, file_write_timeout,
                   analysis, image_path, file_size, start_time, last_size, stable_count,
                   polled, new_file_result, run_did, backend_vars>>

\* the while condition fails: the timeout has elapsed
wait_expired ==
    /\ new_file_pc = "loop"
    /\ ~(Elapsed < file_write_timeout)
    /\ new_file_pc' = "check"
    /\ UNCHANGED <<util_vars, lock_vars, note_vars, net_vars, env_vars, db_vars, batch_vars, mon_vars, file_write_timeout,
                   analysis, image_path, file_size, start_time, last_size, stable_count,
                   polled, new_file_result, run_did, backend_vars>>

\* after the loop: the timeout check, then the asset id of the file name
after_wait ==
    /\ new_file_pc = "check"
    /\ IF TimedOut(Elapsed, file_write_timeout)
       THEN /\ new_file_result' = Err("FileWriteTimeout")
            /\ new_file_pc' = "done"
       ELSE IF AssetOf(image_path) = "InvalidUuid"
       THEN /\ new_file_result' = Err("InvalidUuid")
            /\ new_file_pc' = "done"
       ELSE /\ new_file_result' = new_file_result
            /\ new_file_pc' = IF ignore_existing THEN "analyze" ELSE "dupcheck"
    /\ UNCHANGED <<util_vars, lock_vars, note_vars, net_vars, env_vars, db_vars, batch_vars, mon_vars, file_write_timeout,
                   analysis, image_path, file_size, start_time, last_size, stable_count,
                   polled, run_did, backend_vars>>

\* asset_has_description answers: an error, "has one" (the call returns
\* Ok(())), or "has none"
new_file_dupcheck ==
    /\ new_file_pc = "dupcheck"
    /\ run_did' = run_did \cup {"query"}
    /\ \E db_ok \in BOOLEAN :
        IF ~db_ok
        THEN /\ new_file_result' = Err("DatabaseError")
             /\ new_file_pc' = "done"
        ELSE IF asset_has_description(store, AssetOf(image_path))
        THEN /\ new_file_result' = Ok(<<>>)
             /\ new_file_pc' = "done"
        ELSE /\ new_file_result' = new_file_result
             /\ new_file_pc' = "analyze"
    /\ UNCHANGED <<util_vars, lock_vars, note_vars, net_vars, env_vars, db_vars, batch_vars, mon_vars, file_write_timeout,
                   analysis, image_path, file_size, start_time, last_size, stable_count,
                   polled, backend_vars>>

\* what analyze_image did on the way to outcome o
AnalysisDid(o) ==
    IF o.kind = "Ok" \/ o.error = "HttpError500" THEN {"select", "call"}
    ELSE IF o.error = "AllHostsUnavailable" THEN {"select"}
    ELSE {}

\* a manager is built and analyze_image returns
new_file_analysis ==
    /\ new_file_pc = "analyze"
    /\ \E o \in AnalyzeOutcomes :
        /\ run_did' = run_did \cup AnalysisDid(o)
        /\ IF o.kind = "Err"
           THEN /\ new_file_result' = o
                /\ new_file_pc' = "done"
                /\ analysis' = analysis
           ELSE /\ new_file_result' = new_file_result
                /\ new_file_pc' = "upsert"
                /\ analysis' = o
    /\ UNCHANGED <<util_vars, lock_vars, note_vars, net_vars, env_vars, db_vars, batch_vars, mon_vars, file_write_timeout,
                   image_path, file_size, start_time, last_size, stable_count,
                   polled, backend_vars>>

\* update_or_create_asset_description returns
new_file_upsert ==
    /\ new_file_pc = "upsert"
    /\ run_did' = run_did \cup {"upsert"}
    /\ \E db_ok \in BOOLEAN :
        /\ IF db_ok
           THEN /\ store' = update_or_create_asset_description(
                               store, AssetOf(image_path), analysis.description)
                /\ upserts' = [upserts EXCEPT ![AssetOf(image_path)] =
                                                 Min({@ + 1, MaxUpserts})]
           ELSE UNCHANGED db_vars
        /\ new_file_result' = PersistResult(db_ok, Ok(<<>>))
    /\ new_file_pc' = "done"
    /\ UNCHANGED <<util_vars, lock_vars, note_vars, net_vars, env_vars, batch_vars, mon_vars, file_write_timeout,
                   analysis, image_path, file_size, start_time, last_size, stable_count,
                   polled, backend_vars>>

(***************************************************************************)
(* A pipeline run with its call of analyze_image followed step by step     *)
(***************************************************************************)
\* mutant of ImageKindsOf: the length of the file is not looked at
ImageKindsOf_noLengthCheck(size) ==
    CASE size = Missing -> {"no_metadata"}
      [] OTHER -> {"ok", "unreadable"}

\* what analyze_image finds when it looks at a file of this size
ImageKindsOf(size) ==
    CASE size = Missing -> {"no_metadata"}
      [] size = 0 -> {"empty"}
      [] OTHER -> {"ok", "unreadable"}

\* OllamaHostManager::new / LlamaCppHostManager::new, then analyze_image up to
\* its loop: the asset id, the metadata, the length, the read of the file
analyze_call ==
    /\ new_file_pc = "analyze"
    /\ pc = "off"
    /\ runs_started' = runs_started + 1
    /\ \E k \in ImageKindsOf(file_size) :
        /\ image' = k
        /\ outcome' = CASE k = "no_metadata" -> Err("ProcessingError")
                        [] k = "empty" -> Err("EmptyFile")
                        [] k = "unreadable" -> Err("ProcessingError")
                        [] OTHER -> NoOutcome
        /\ pc' = IF k = "ok" THEN "loop" ELSE "done"
    /\ unavailable_hosts' = EmptyMap
    /\ attempt' = 0
    /\ host' = "NoHost"
    /\ last_error' = "None"
    /\ log' = <<>>
    /\ attempt_err' = "None"
    /\ selects' = 0
    /\ response' = NoResponse
    /\ dropped' = FALSE
    /\ new_file_pc' = "analyzing"
    /\ UNCHANGED <<util_vars, lock_vars, note_vars, net_vars, env_vars, db_vars, batch_vars, mon_vars, file_write_timeout,
                   analysis, image_path, file_size, start_time, last_size, stable_count,
                   polled, new_file_result, run_did,
                   cfg_vars, now, selected, sel_same, call_map, call_now>>

\* analyze_image returns to process_new_file
\* mutant of AfterAnalysis: the upsert follows whatever analyze_image returned
AfterAnalysis_always(o) == "upsert"

\* match analyze_image(..).await: Ok(analysis) goes on to the upsert, Err(e)
\* returns the error
AfterAnalysis(o) == IF o.kind = "Err" THEN "done" ELSE "upsert"

analyze_return ==
    /\ new_file_pc = "analyzing"
    /\ pc = "done"
    /\ pc' = "off"
    /\ run_did' = run_did \cup (IF selects > 0 THEN {"select"} ELSE {})
                          \cup (IF log # <<>> THEN {"call"} ELSE {})
    /\ new_file_pc' = AfterAnalysis(outcome)
    /\ IF outcome.kind = "Err"
       THEN /\ new_file_result' = outcome
            /\ analysis' = analysis
       ELSE /\ new_file_result' = new_file_result
            /\ analysis' = outcome
    /\ UNCHANGED <<util_vars, lock_vars, note_vars, net_vars, env_vars, db_vars, batch_vars, mon_vars, file_write_timeout,
                   image_path, file_size, start_time, last_size, stable_count,
                   polled, cfg_vars, now, host_vars, attempt, host, last_error,
                   outcome, log, attempt_err, selects, response, dropped, image,
                   runs_started>>

(***************************************************************************)
(* extract_uuid_from_preview_filename and display_results, called on       *)
(* their own                                                               *)
(***************************************************************************)
\* the parts a file name is made of: two identifiers in canonical form, an
\* identifier spelled with uppercase digits, the text "-preview", the
\* extension and a filler character
NameTokens == {"a1", "a2", "A1", "-preview", ".jpg", "_"}
Names == UNION {[1..n -> NameTokens] : n \in 0..MaxName}

extract_call ==
    /\ util_pc = "extract"
    /\ asset_id' = extract_uuid_from_preview_filename(filename)
    /\ util_pc' = "done"
    /\ UNCHANGED <<env_vars, db_vars, batch_vars, mon_vars, wait_vars, lock_vars, note_vars, net_vars,
                   filename, successful, failed, skipped, backend_vars>>

\* the variants of ImageAnalysisError (HttpError with one status)
ImageAnalysisErrors ==
    {"EmptyFile", "HttpError500", "EmptyResponse", "JsonParsing",
     "FileWriteTimeout", "ProcessingError", "AlreadyProcessed",
     "DatabaseError", "InvalidUuid", "InvalidImmichStructure",
     "AllHostsUnavailable", "OllamaRequestTimeout", "LlamaCppRequestTimeout"}
ResultValues == {Ok(<<"a">>)} \cup {Err(e) : e \in ImageAnalysisErrors}
\* the list whose entries hold the values rs, in that order
ResultList(rs) ==
    [k \in DOMAIN rs |-> [filename |-> Filename("p1"), result |-> rs[k],
                          idx |-> k]]

\* mutant of handle_error_result: InvalidUuid is an ordinary failure
handle_error_result_uuidFails(error) ==
    IF error = "AlreadyProcessed" THEN "skipped" ELSE "failed"

\* the count_increment of handle_error_result
handle_error_result(error) ==
    CASE error = "AlreadyProcessed" -> "skipped"
      [] error = "InvalidUuid" -> "skipped"
      [] error = "InvalidImmichStructure" -> "failed"
      [] OTHER -> "failed"

\* the for loop of display_results over what is left of the list: c holds
\* successful, failed and skipped
RECURSIVE CountResults(_, _)
CountResults(rs, c) ==
    IF rs = <<>> THEN c
    ELSE LET result == Head(rs).result
             count_increment ==
                 IF result.kind = "Ok" THEN "success"
                 ELSE handle_error_result(result.error)
         IN  CountResults(Tail(rs),
                 CASE count_increment = "success" ->
                          [c EXCEPT !.successful = @ + 1]
                   [] count_increment = "failed" ->
                          [c EXCEPT !.failed = @ + 1]
                   [] count_increment = "skipped" ->
                          [c EXCEPT !.skipped = @ + 1]
                   [] OTHER -> c)

display_results ==
    /\ util_pc = "display"
    /\ LET c == CountResults(results,
                     [successful |-> 0, failed |-> 0, skipped |-> 0])
       IN  /\ successful' = c.successful
           /\ failed' = c.failed
           /\ skipped' = c.skipped
    /\ util_pc' = "done"
    /\ UNCHANGED <<env_vars, db_vars, batch_vars, mon_vars, wait_vars, lock_vars, note_vars, net_vars,
                   filename, asset_id, backend_vars>>

(***************************************************************************)
(* The lock of the unavailability map, with two tasks on one manager       *)
(***************************************************************************)
\* mutant of CanLock: lock() never waits
CanLock_always(g) == TRUE

\* self.unavailable_hosts.lock(): the mutex is free
CanLock(g) == g = {}

\* the positions at which a task runs the body of a manager function
InsideManager == {"get_locked", "mark_locked"}

Move(t, to) == callers' = [callers EXCEPT ![t].pc = to]

\* let mut unavailable = self.unavailable_hosts.lock().unwrap(), in
\* get_available_host or in mark_host_unavailable
lock_acquire(t) ==
    /\ callers[t].pc \in {"get", "mark"}
    /\ CanLock(guards)
    /\ guards' = guards \cup {t}
    /\ Move(t, IF callers[t].pc = "get" THEN "get_locked" ELSE "mark_locked")
    /\ UNCHANGED <<env_vars, db_vars, batch_vars, mon_vars, wait_vars, util_vars, net_vars, note_vars,
                   backend_vars>>

\* the body of get_available_host, up to the value it returns
get_host_body(t) ==
    /\ callers[t].pc = "get_locked"
    /\ LET u == Retain(unavailable_hosts, now, unavailable_duration)
       IN  /\ unavailable_hosts' = u
           /\ \E res \in HostChoices(hosts, u) :
                callers' = [callers EXCEPT ![t].pc = "get_return",
                                           ![t].host = res]
    /\ UNCHANGED <<env_vars, db_vars, batch_vars, mon_vars, wait_vars, util_vars, net_vars, note_vars,
                   guards, cfg_vars, now, selected, sel_same, call_map, call_now,
                   run_vars>>

\* the body of mark_host_unavailable
mark_host_body(t) ==
    /\ callers[t].pc = "mark_locked"
    /\ unavailable_hosts' = Insert(unavailable_hosts, callers[t].host, now)
    /\ Move(t, "mark_return")
    /\ UNCHANGED <<env_vars, db_vars, batch_vars, mon_vars, wait_vars, util_vars, net_vars, note_vars,
                   guards, cfg_vars, now, selected, sel_same, call_map, call_now,
                   run_vars>>

\* the function returns and its guard is dropped; the caller goes on: to the
\* POST, to the next mark, to the next attempt, or out of analyze_image
manager_return(t) ==
    /\ callers[t].pc \in {"get_return", "mark_return"}
    /\ guards' = guards \ {t}
    /\ IF callers[t].pc = "get_return"
       THEN Move(t, IF callers[t].host = "AllHostsUnavailable" THEN "done"
                    ELSE "send")
       ELSE IF callers[t].marks > 1
       THEN callers' = [callers EXCEPT ![t].pc = "mark", ![t].marks = @ - 1]
       ELSE callers' = [callers EXCEPT
                ![t].pc = IF callers[t].attempt + 1 < Attempts(hosts)
                          THEN "get" ELSE "done",
                ![t].attempt = @ + 1,
                ![t].marks = 0]
    /\ UNCHANGED <<env_vars, db_vars, batch_vars, mon_vars, wait_vars, util_vars, net_vars, note_vars,
                   backend_vars>>

\* the await of the POST ends: with a description, or with a failure that
\* the loop goes on from
post_returns(t) ==
    /\ callers[t].pc = "send"
    /\ \E ok \in BOOLEAN :
        IF ok THEN Move(t, "done")
        ELSE callers' = [callers EXCEPT ![t].pc = "mark",
                             ![t].marks = MarksAfterFailure(interface)]
    /\ UNCHANGED <<env_vars, db_vars, batch_vars, mon_vars, wait_vars, util_vars, net_vars, note_vars,
                   guards, backend_vars>>

(***************************************************************************)
(* One POST of analyze_image under its two deadlines                       *)
(***************************************************************************)
\* largest args.timeout, in clock units
MaxWait == 2

\* a Client built without a timeout
NoTimeout == -1

\* the host never answers
Never == -1

\* the response has not come when d clock units have passed
Late(took, d) == took = Never \/ took >= d

\* the timeout of the Client a run is given: run_batch_mode builds it with
\* .timeout(args.timeout); the Client of monitor mode is handed to
\* monitor_folder by a caller that is not part of the sources, so it may have
\* a timeout or none
ClientTimeouts(m, t) == IF m = "batch" THEN {t} ELSE {NoTimeout, t}

\* what the match on tokio::time::timeout(timeout + 1, send()) sees: the
\* Client's own timeout ends send() with a reqwest error, Ok(Err(e)), when
\* it comes first; else the ceiling ends it with Err(Elapsed); else the
\* response is there, Ok(Ok(response))
SendKind(client, t, took) ==
    IF client # NoTimeout /\ client < t + 1 /\ Late(took, client)
    THEN "transport"
    ELSE IF Late(took, t + 1) THEN "timeout"
    ELSE "response"

\* reqwest::Client::builder().timeout(..).build(), or the Client handed in
build_client ==
    /\ post.pc = "build"
    /\ \E c \in ClientTimeouts(mode, post.timeout) :
        post' = [post EXCEPT !.pc = "send", !.client = c]
    /\ UNCHANGED <<env_vars, db_vars, batch_vars, mon_vars, wait_vars, util_vars,
                   lock_vars, note_vars, backend_vars>>

\* the POST is sent and awaited under both deadlines
send_post ==
    /\ post.pc = "send"
    /\ post' = [post EXCEPT !.pc = "match",
                            !.kind = SendKind(post.client, post.timeout, post.took)]
    /\ UNCHANGED <<env_vars, db_vars, batch_vars, mon_vars, wait_vars, util_vars,
                   lock_vars, note_vars, backend_vars>>

\* the match on the result of the await gives the attempt its error
match_result ==
    /\ post.pc = "match"
    /\ post' = [post EXCEPT !.pc = "classified"]
    /\ \E resp \in Responses :
        /\ IF post.kind = "response"
           THEN resp.kind \notin {"timeout", "transport"}
           ELSE resp.kind = post.kind
        /\ response' = resp
        /\ attempt_err' = AttemptResult(interface, resp).err
        /\ outcome' = AttemptResult(interface, resp).ret
    /\ UNCHANGED <<env_vars, db_vars, batch_vars, mon_vars, wait_vars, util_vars,
                   lock_vars, note_vars, cfg_vars, now, host_vars, pc, attempt, host,
                   last_error, log, selects, dropped, image,
                   runs_started>>

(***************************************************************************)
(* Initial states and specifications                                       *)
(***************************************************************************)
InitConfig ==
    /\ hosts \in Pools
    /\ unavailable_duration \in 0..MaxDuration
    /\ now = 0

InitManager ==
    /\ unavailable_hosts = EmptyMap
    /\ selected = "NoCall"
    /\ sel_same = "NA"
    /\ call_map = EmptyMap
    /\ call_now = 0

InitRunIdle ==
    /\ attempt = 0
    /\ host = "NoHost"
    /\ last_error = "None"
    /\ outcome = [kind |-> "None", description |-> <<>>, error |-> "None"]
    /\ log = <<>>
    /\ attempt_err = "None"
    /\ selects = 0
    /\ response = [kind |-> "none", parse |-> "none", content |-> <<>>]
    /\ dropped = FALSE
    /\ image = "none"
    /\ runs_started = 0

\* no batch is running
InitMonitorOff ==
    /\ event_cooldown = 0
    /\ mon_pc = "off"
    /\ stop_signal = FALSE
    /\ event_rx = <<>>
    /\ last_events = EmptyMap
    /\ processing_files = {}
    /\ tasks = {}
    /\ burst = NoBurst

\* no POST is followed with its deadlines
NoPost == [pc |-> "off", timeout |-> 0, client |-> -1, took |-> -1,
           kind |-> "none"]
InitNetOff == post = NoPost

\* no history of the in-flight guard is kept
InitNoteOff == guard_note = "off"

\* the tasks that can share a manager
Tasks == {"t1", "t2"}

\* no task calls a manager that another task holds too
InitLockOff ==
    /\ guards = {}
    /\ callers = [t \in Tasks |-> [pc |-> "off", host |-> "NoHost",
                                   attempt |-> 0, marks |-> 0]]

\* no function of utils.rs is being called on its own
InitUtilOff ==
    /\ InitLockOff
    /\ InitNetOff
    /\ util_pc = "off"
    /\ filename = <<>>
    /\ asset_id = "None"
    /\ successful = 0
    /\ failed = 0
    /\ skipped = 0

\* no call of process_new_file is followed on its own
InitNoNewFile ==
    /\ file_write_timeout = 0
    /\ image_path = "p1"
    /\ file_size = 0
    /\ new_file_pc = "off"
    /\ start_time = 0
    /\ last_size = 0
    /\ stable_count = 0
    /\ polled = <<>>
    /\ analysis = NoOutcome
    /\ new_file_result = NoOutcome
    /\ run_did = {}

InitWaitOff ==
    /\ InitUtilOff
    /\ InitNoNewFile

InitPipeOff ==
    /\ InitNoteOff
    /\ InitMonitorOff
    /\ InitWaitOff
    /\ mode = "batch"
    /\ process = "running"
    /\ disk = {}
    /\ ignore_existing = FALSE
    /\ store = [a \in Assets |-> NoDesc]
    /\ upserts = [a \in Assets |-> 0]
    /\ max_concurrent = 0
    /\ batch_pc = "off"
    /\ files = <<>>
    /\ next_file = 0
    /\ brun = <<>>
    /\ results = <<>>

\* get_available_host and mark_host_unavailable are the same code in both
\* managers, so the direct calls are explored for one of them
InitHost ==
    /\ InitConfig
    /\ interface = "Ollama"
    /\ InitManager
    /\ InitRunIdle
    /\ InitPipeOff
    /\ pc = "api"

NextHost == get_available_host \/ mark_host_unavailable \/ Tick

\* the host manager under direct calls
SpecHost == InitHost /\ [][NextHost]_vars

InitAnalyze ==
    /\ InitConfig
    /\ interface \in Interfaces
    /\ InitManager
    /\ InitRunIdle
    /\ InitPipeOff
    /\ pc = "idle"

NextAnalyze ==
    \/ analyze_start
    \/ loop_select
    \/ loop_exit
    \/ attempt_response
    \/ mark_failed_host
    \/ Tick

\* runs of analyze_image, each on the manager its caller built for it
SpecAnalyze == InitAnalyze /\ [][NextAnalyze]_vars

\* a step of the run of analyze_image that is under way
RetryStep == loop_select \/ loop_exit \/ attempt_response \/ mark_failed_host

\* one run of analyze_image from the head of its loop, on a fresh manager;
\* the file has passed the checks before the loop
InitRetry ==
    /\ InitConfig
    /\ interface \in Interfaces
    /\ InitManager
    /\ InitPipeOff
    /\ pc = "loop"
    /\ attempt = 0
    /\ host = "NoHost"
    /\ last_error = "None"
    /\ outcome = NoOutcome
    /\ log = <<>>
    /\ attempt_err = "None"
    /\ selects = 0
    /\ response = NoResponse
    /\ dropped = FALSE
    /\ image = "ok"
    /\ runs_started = 1

NextRetry ==
    \/ loop_select
    \/ loop_exit
    \/ attempt_response
    \/ mark_failed_host
    \/ Tick

\* every await of the loop returns: the POST is under tokio::time::timeout and
\* the manager's lock is never held across an await
SpecRetry == InitRetry /\ [][NextRetry]_vars /\ WF_vars(RetryStep)

\* the configuration of a run that uses no backend pool of its own
InitBackendFixed ==
    /\ hosts = <<"h1">>
    /\ unavailable_duration = 0
    /\ interface = "Ollama"
    /\ now = 0
    /\ InitManager
    /\ InitRunIdle
    /\ pc = "off"

InitBatch ==
    /\ InitNoteOff
    /\ InitBackendFixed
    /\ InitMonitorOff
    /\ InitWaitOff
    /\ mode = "batch"
    /\ process = "running"
    /\ disk \in {d \in SUBSET Paths : Cardinality(d) <= MaxFiles}
    /\ ignore_existing \in BOOLEAN
    /\ store \in [Assets -> {NoDesc, OldDesc}]
    /\ upserts = [a \in Assets |-> 0]
    /\ max_concurrent \in 0..MaxConcurrent
    /\ batch_pc = "scan"
    /\ files = <<>>
    /\ next_file = 0
    /\ brun = <<>>
    /\ results = <<>>

NextBatch ==
    \/ run_batch_mode
    \/ start_run
    \/ dupcheck_answer
    \/ analysis_done
    \/ upsert_done
    \/ batch_return
    \/ main_return

\* batch mode: run_batch_mode over the files found under thumbs/
SpecBatch == InitBatch /\ [][NextBatch]_vars

\* batch mode in which every step that can be taken is taken in the end: the
\* executor polls every woken future, and every await of a run completes
SpecBatchFair == SpecBatch /\ WF_vars(NextBatch)

InitNoBatch ==
    /\ max_concurrent = 0
    /\ batch_pc = "off"
    /\ files = <<>>
    /\ next_file = 0
    /\ brun = <<>>

InitBatchOff ==
    /\ InitNoBatch
    /\ results = <<>>

InitWatcher ==
    /\ InitNoteOff
    /\ event_cooldown \in {0, MaxCooldown}
    /\ mon_pc = "select"
    /\ stop_signal = FALSE
    /\ event_rx = <<>>
    /\ last_events = EmptyMap
    /\ processing_files = {}
    /\ tasks = {}
    /\ burst = NoBurst

InitMonitor ==
    /\ InitBackendFixed
    /\ InitWaitOff
    /\ InitBatchOff
    /\ InitWatcher
    /\ mode = "monitor"
    /\ process = "running"
    /\ disk = {"p1", "p2"}
    /\ ignore_existing \in BOOLEAN
    /\ store = [a \in Assets |-> IF a = "a1" THEN NoDesc ELSE OldDesc]
    /\ upserts = [a \in Assets |-> 0]

NextMonitor ==
    \/ fs_event
    \/ signal
    \/ tick_begin
    \/ monitor_stop
    \/ handle_event
    \/ drain_end
    \/ stability_done
    \/ task_dupcheck
    \/ task_analysis
    \/ task_upsert
    \/ task_remove
    \/ main_return
    \/ Tick

\* monitor mode: monitor_folder and the tasks it spawns
SpecMonitor == InitMonitor /\ [][NextMonitor]_vars

\* monitor mode over a thumbs directory that holds one preview file
InitOneFile ==
    /\ InitBackendFixed
    /\ InitWaitOff
    /\ InitBatchOff
    /\ InitWatcher
    /\ mode = "monitor"
    /\ process = "running"
    /\ disk = {"p1"}
    /\ ignore_existing \in BOOLEAN
    /\ store = [a \in Assets |-> IF a = "a1" THEN NoDesc ELSE OldDesc]
    /\ upserts = [a \in Assets |-> 0]

SpecOneFile == InitOneFile /\ [][NextMonitor]_vars

\* monitor mode over one preview file with a cooldown that lasts longer than
\* one step of the clock, so that an event can come later than the admitted
\* one and still inside its cooldown
InitDebounce ==
    /\ guard_note = "none"
    /\ InitBackendFixed
    /\ InitWaitOff
    /\ InitBatchOff
    /\ event_cooldown = MaxCooldown + 1
    /\ mon_pc = "select"
    /\ stop_signal = FALSE
    /\ event_rx = <<>>
    /\ last_events = EmptyMap
    /\ processing_files = {}
    /\ tasks = {}
    /\ burst = NoBurst
    /\ mode = "monitor"
    /\ process = "running"
    /\ disk = {"p1"}
    /\ ignore_existing \in BOOLEAN
    /\ store = [a \in Assets |-> IF a = "a1" THEN NoDesc ELSE OldDesc]
    /\ upserts = [a \in Assets |-> 0]

SpecDebounce == InitDebounce /\ [][NextMonitor]_vars

\* a step of a spawned task
TaskStep ==
    stability_done \/ task_dupcheck \/ task_analysis \/ task_upsert \/ task_remove

\* monitor mode over one preview file in which the runtime goes on polling
\* the spawned tasks and every await of a run completes
SpecOneFileFair == SpecOneFile /\ WF_vars(TaskStep)

InitCombined ==
    /\ InitBackendFixed
    /\ InitWaitOff
    /\ InitWatcher
    /\ mode = "combined"
    /\ process = "running"
    /\ disk \in SUBSET {"p1"}
    /\ ignore_existing \in BOOLEAN
    /\ store = [a \in Assets |-> IF a = "a1" THEN NoDesc ELSE OldDesc]
    /\ upserts = [a \in Assets |-> 0]
    /\ max_concurrent \in 1..MaxConcurrent
    /\ batch_pc = "scan"
    /\ files = <<>>
    /\ next_file = 0
    /\ brun = <<>>
    /\ results = <<>>

NextCombined ==
    \/ run_batch_mode
    \/ start_run
    \/ dupcheck_answer
    \/ analysis_done
    \/ upsert_done
    \/ batch_return
    \/ fs_event
    \/ signal
    \/ tick_begin
    \/ monitor_stop
    \/ handle_event
    \/ drain_end
    \/ stability_done
    \/ task_dupcheck
    \/ task_analysis
    \/ task_upsert
    \/ task_remove
    \/ main_return
    \/ Tick

\* combined mode: run_combined_mode spawns the batch run and watches the same
\* thumbs directory
SpecCombined == InitCombined /\ [][NextCombined]_vars
InitNewFile ==
    /\ InitNoteOff
    /\ InitBackendFixed
    /\ InitUtilOff
    /\ InitBatchOff
    /\ InitMonitorOff
    /\ mode = "monitor"
    /\ process = "running"
    /\ disk = {"p1", "p4"}
    /\ ignore_existing \in BOOLEAN
    /\ store \in {[a \in Assets |-> NoDesc], [a \in Assets |-> OldDesc]}
    /\ upserts = [a \in Assets |-> 0]
    /\ file_write_timeout \in 0..MaxTimeout
    /\ image_path \in disk
    /\ file_size \in Sizes
    /\ new_file_pc = "loop"
    /\ start_time = now
    /\ last_size = 0
    /\ stable_count = 0
    /\ polled = <<>>
    /\ analysis = NoOutcome
    /\ new_file_result = NoOutcome
    /\ run_did = {}

NextNewFile ==
    \/ file_write
    \/ poll_size
    \/ sleep_done
    \/ wait_expired
    \/ after_wait
    \/ new_file_dupcheck
    \/ new_file_analysis
    \/ new_file_upsert
    \/ Tick

\* one call of process_new_file, from the start of its stability wait
SpecNewFile == InitNewFile /\ [][NextNewFile]_vars

\* one call of process_new_file whose stability wait has just ended stable:
\* the file may have changed since the last poll
InitRun ==
    /\ InitNoteOff
    /\ hosts \in {p \in Pools : Len(p) <= MaxRunHosts}
    /\ unavailable_duration \in 0..MaxDuration
    /\ now = 0
    /\ interface \in Interfaces
    /\ InitManager
    /\ InitRunIdle
    /\ pc = "off"
    /\ InitUtilOff
    /\ InitBatchOff
    /\ InitMonitorOff
    /\ mode = "monitor"
    /\ process = "running"
    /\ disk = {"p1"}
    /\ ignore_existing \in BOOLEAN
    /\ store \in {[a \in Assets |-> NoDesc], [a \in Assets |-> OldDesc]}
    /\ upserts = [a \in Assets |-> 0]
    /\ file_write_timeout = MaxTimeout
    /\ image_path = "p1"
    /\ file_size \in {Missing, 0, MaxSize}
    /\ new_file_pc = "check"
    /\ start_time = now
    /\ last_size = MaxSize
    /\ stable_count = StablePolls
    /\ polled = <<MaxSize, MaxSize, MaxSize>>
    /\ analysis = NoOutcome
    /\ new_file_result = NoOutcome
    /\ run_did = {}

NextRun ==
    \/ after_wait
    \/ new_file_dupcheck
    \/ analyze_call
    \/ loop_select
    \/ loop_exit
    \/ attempt_response
    \/ mark_failed_host
    \/ analyze_return
    \/ new_file_upsert
    \/ Tick

\* a pipeline run from the end of its stability wait to its result
SpecRun == InitRun /\ [][NextRun]_vars

\* two tasks run the loop of analyze_image on clones of one manager, which
\* share its map
InitLock ==
    /\ InitNoteOff
    /\ hosts \in {p \in Pools : Len(p) <= MaxRunHosts}
    /\ unavailable_duration \in 0..MaxDuration
    /\ now = 0
    /\ interface \in Interfaces
    /\ InitManager
    /\ InitRunIdle
    /\ pc = "off"
    /\ InitMonitorOff
    /\ InitNoNewFile
    /\ InitNoBatch
    /\ results = <<>>
    /\ mode = "batch"
    /\ process = "running"
    /\ disk = {}
    /\ ignore_existing = FALSE
    /\ store = [a \in Assets |-> NoDesc]
    /\ upserts = [a \in Assets |-> 0]
    /\ util_pc = "off"
    /\ filename = <<>>
    /\ asset_id = "None"
    /\ successful = 0
    /\ failed = 0
    /\ skipped = 0
    /\ guards = {}
    /\ post = NoPost
    /\ callers = [t \in Tasks |->
                    [pc |-> IF Attempts(hosts) > 0 THEN "get" ELSE "done",
                     host |-> "NoHost", attempt |-> 0, marks |-> 0]]

NextLock ==
    \/ \E t \in Tasks : lock_acquire(t)
    \/ \E t \in Tasks : get_host_body(t)
    \/ \E t \in Tasks : mark_host_body(t)
    \/ \E t \in Tasks : manager_return(t)
    \/ \E t \in Tasks : post_returns(t)
    \/ Tick

SpecLock == InitLock /\ [][NextLock]_vars

\* one POST: any args.timeout, any moment of the response, both interfaces,
\* in batch mode and in monitor mode
InitDeadline ==
    /\ InitNoteOff
    /\ hosts = <<"h1">>
    /\ unavailable_duration = 0
    /\ now = 0
    /\ interface \in Interfaces
    /\ InitManager
    /\ InitRunIdle
    /\ pc = "off"
    /\ InitMonitorOff
    /\ InitNoNewFile
    /\ InitNoBatch
    /\ results = <<>>
    /\ mode \in {"batch", "monitor"}
    /\ process = "running"
    /\ disk = {}
    /\ ignore_existing = FALSE
    /\ store = [a \in Assets |-> NoDesc]
    /\ upserts = [a \in Assets |-> 0]
    /\ InitLockOff
    /\ util_pc = "off"
    /\ filename = <<>>
    /\ asset_id = "None"
    /\ successful = 0
    /\ failed = 0
    /\ skipped = 0
    /\ \E t \in 0..MaxWait : \E k \in {Never} \cup (0..(MaxWait + 2)) :
        post = [pc |-> "build", timeout |-> t, client |-> NoTimeout,
                took |-> k, kind |-> "none"]

NextDeadline == build_client \/ send_post \/ match_result

SpecDeadline == InitDeadline /\ [][NextDeadline]_vars

\* no pipeline is running
InitNoPipeline ==
    /\ InitNoteOff
    /\ InitBackendFixed
    /\ InitLockOff
    /\ InitNetOff
    /\ InitNoBatch
    /\ InitMonitorOff
    /\ InitNoNewFile
    /\ mode = "batch"
    /\ process = "running"
    /\ disk = {}
    /\ ignore_existing = FALSE
    /\ store = [a \in Assets |-> NoDesc]
    /\ upserts = [a \in Assets |-> 0]

\* one call of extract_uuid_from_preview_filename, for every file name of at
\* most MaxName parts
InitExtract ==
    /\ InitNoPipeline
    /\ results = <<>>
    /\ util_pc = "extract"
    /\ filename \in Names
    /\ asset_id = "None"
    /\ successful = 0
    /\ failed = 0
    /\ skipped = 0

NextExtract == extract_call

SpecExtract == InitExtract /\ [][NextExtract]_vars

\* one call of display_results, for every list of at most MaxResults results
InitDisplay ==
    /\ InitNoPipeline
    /\ \E n \in 0..MaxResults :
          \E rs \in [1..n -> ResultValues] : results = ResultList(rs)
    /\ util_pc = "display"
    /\ filename = <<>>
    /\ asset_id = "None"
    /\ successful = 0
    /\ failed = 0
    /\ skipped = 0

NextDisplay == display_results

SpecDisplay == InitDisplay /\ [][NextDisplay]_vars

(***************************************************************************)
(* Properties of the host manager                                          *)
(***************************************************************************)
\* the hosts marked and not yet expired when the last direct call was made
CallMarked ==
    {h \in DOMAIN call_map : call_now - call_map[h] < unavailable_duration}
\* the pool positions that call found free
CallFree == {i \in 1..Len(hosts) : hosts[i] \notin CallMarked}

\* C6: when fewer hosts are marked (unexpired) than the pool holds,
\* get_available_host returns the first host in pool order that is not marked,
\* and a call repeated with marks and clock unchanged returns the same host.
C6_FirstUnmarkedInPoolOrder ==
    (selected # "NoCall" /\ CallFree # {}) =>
        /\ selected = hosts[Min(CallFree)]
        /\ sel_same # "diff"

\* a repeated call that skipped a marked first host
C6_Witness ==
    /\ selected # "NoCall"
    /\ CallMarked # {}
    /\ CallFree # {}
    /\ Min(CallFree) > 1
    /\ sel_same = "same"

\* C7: with a pool of at least one host get_available_host never fails; when
\* every host is marked and unexpired it returns a host whose mark is the
\* earliest; AllHostsUnavailable is returned only for the empty pool.
C7_NeverFailsOldestWhenAllMarked ==
    selected # "NoCall" =>
        /\ (Len(hosts) >= 1 => selected # "AllHostsUnavailable")
        /\ (selected = "AllHostsUnavailable" => Len(hosts) = 0)
        /\ (Len(hosts) >= 1 /\ CallFree = {} =>
                /\ selected \in CallMarked
                /\ \A h \in Range(hosts) : call_map[selected] <= call_map[h])

\* every host marked, at different times, and the oldest one returned
C7_Witness ==
    /\ selected \in HostNames
    /\ Len(hosts) >= 2
    /\ CallFree = {}
    /\ \E h \in Range(hosts) : call_map[h] > call_map[selected]

\* C8: a host whose latest mark was made at t is passed over at every call
\* with now - t < unavailable_duration while another host is free, and counts
\* as free again, without a clear, at every call with
\* now - t >= unavailable_duration.
C8_MarkExpiresAfterDuration ==
    selected # "NoCall" =>
        \A h \in DOMAIN call_map :
            LET age == call_now - call_map[h]
                first == Min({i \in 1..Len(hosts) : hosts[i] = h})
                otherFree ==
                    \E i \in 1..Len(hosts) :
                        /\ hosts[i] # h
                        /\ \/ hosts[i] \notin DOMAIN call_map
                           \/ call_now - call_map[hosts[i]] >= unavailable_duration
                earlierTaken ==
                    \A i \in 1..(first - 1) :
                        /\ hosts[i] \in DOMAIN call_map
                        /\ call_now - call_map[hosts[i]] < unavailable_duration
            IN  /\ (age < unavailable_duration /\ otherFree) => selected # h
                /\ (age >= unavailable_duration /\ earlierTaken) => selected = h

\* an expired host is returned again while the host before it is still marked
C8_Witness ==
    /\ selected # "NoCall"
    /\ unavailable_duration >= 1
    /\ Len(hosts) >= 2
    /\ hosts[1] \in CallMarked
    /\ selected = hosts[2]
    /\ hosts[2] \in DOMAIN call_map
    /\ call_now - call_map[hosts[2]] >= unavailable_duration

(***************************************************************************)
(* Properties of the retry loop                                            *)
(***************************************************************************)
Distinct(pool) == \A i, j \in 1..Len(pool) : i # j => pool[i] # pool[j]
LastTried == log[Len(log)]

\* C9: with distinct hosts and no mark expiring during the run: when the
\* first j attempts fail and attempt j+1 succeeds, the run returns the
\* description of that response and exactly the j failed hosts are marked,
\* the succeeding host is not; when all N attempts fail the run returns the
\* error of the N-th attempt.
C9_RetryOutcomeAndMarks ==
    (pc = "done" /\ Distinct(hosts) /\ ~dropped /\ Len(log) >= 1) =>
        /\ attempt_err = "None" =>
            /\ outcome = Ok(Trim(response.content))
            /\ outcome.description # <<>>
            /\ DOMAIN unavailable_hosts = {log[i] : i \in 1..(Len(log) - 1)}
            /\ Cardinality(DOMAIN unavailable_hosts) = Len(log) - 1
            /\ LastTried \notin DOMAIN unavailable_hosts
        /\ (attempt_err # "None" /\ Len(log) = Len(hosts)) =>
            /\ outcome = Err(attempt_err)
            /\ (response = NoResponse =>
                    DOMAIN unavailable_hosts = Range(hosts))

\* three hosts, two failures, then a description
C9_Witness ==
    /\ pc = "done"
    /\ Distinct(hosts)
    /\ ~dropped
    /\ Len(hosts) = 3
    /\ Len(log) = 3
    /\ attempt_err = "None"
    /\ outcome.kind = "Ok"

\* C10 as stated: the host selected for an attempt is never the host whose
\* attempt failed just before it in the same run.
C10_NextHostDiffers_AsStated ==
    (pc = "send" /\ Len(log) >= 1) => host # LastTried

\* C10 amended: every attempt selects anew, and the host that just failed is
\* not selected for the next attempt when the pool's addresses are distinct
\* and its mark has not expired by that selection.
C10_NextHostDiffersWhileMarked ==
    (pc = "send") =>
        /\ selects = Len(log) + 1
        /\ selects = attempt + 1
        /\ (Len(log) >= 1 /\ Distinct(hosts)
              /\ LastTried \in DOMAIN unavailable_hosts) => host # LastTried

\* a second attempt on another host while the first host is still marked
C10_Witness ==
    /\ pc = "send"
    /\ Len(log) >= 1
    /\ Distinct(hosts)
    /\ LastTried \in DOMAIN unavailable_hosts
    /\ host # LastTried

\* C21 as stated: an attempt that failed, in whatever way, is recorded as the
\* last error and its host is marked before the run goes on; a run that made
\* an attempt ends in an error only after as many attempts as the pool has
\* hosts, and then with the error of the last attempt.
C21_EveryFailureRetried_AsStated ==
    /\ (pc \in {"mark1", "mark2"}) => last_error = attempt_err
    /\ (pc = "done" /\ Len(log) >= 1 /\ attempt_err # "None") =>
            /\ last_error = attempt_err
            /\ LastTried \in DOMAIN unavailable_hosts
            /\ Len(log) = Len(hosts)
            /\ outcome = Err(attempt_err)

C23_EmptyPoolNoCallNoUpsert ==
    (Len(hosts) = 0 /\ new_file_pc = "done" /\ image = "ok") =>
        /\ new_file_result = Err("AllHostsUnavailable")
        /\ log = <<>>
        /\ "call" \notin run_did
        /\ "upsert" \notin run_did
        /\ upserts = [a \in Assets |-> 0]

\* such a run, after a duplicate check that found no description
C23_Witness ==
    /\ Len(hosts) = 0
    /\ new_file_pc = "done"
    /\ image = "ok"
    /\ "query" \in run_did
    /\ new_file_result = Err("AllHostsUnavailable")

(***************************************************************************)
(* Properties of the batch dispatcher                                      *)
(***************************************************************************)
\* C1: at every instant of process_files_concurrently the pipeline runs
\* started and not yet completed number at most max_concurrent.
C1_ActiveRunsWithinCap == Cardinality(InProgress) <= max_concurrent

\* the buffer is full while a path still waits in the stream
C1_Witness ==
    /\ max_concurrent >= 2
    /\ Cardinality(InProgress) = max_concurrent
    /\ next_file < Len(files)

\* the entries of results that belong to index i of files
EntriesOf(i) == {k \in 1..Len(results) : results[k].idx = i}

\* C2: every collected entry is the filename and the outcome of one path's own
\* run, no path has two entries, and when process_files_concurrently returns
\* every path of the batch has its entry, whatever the other runs ended with.
C2_OneOutcomePerPath ==
    /\ \A k \in 1..Len(results) :
        LET i == results[k].idx
        IN  /\ i \in 1..Len(files)
            /\ results[k].filename = Filename(files[i])
            /\ brun[i].pc = "complete"
            /\ results[k].result = brun[i].result
            /\ results[k].result.kind # "None"
    /\ \A i \in 1..Len(files) : Cardinality(EntriesOf(i)) <= 1
    /\ batch_pc = "returned" =>
        /\ Len(results) = Len(files)
        /\ \A i \in 1..Len(files) : Cardinality(EntriesOf(i)) = 1

\* a returned batch of three with a skip, a failure and a description
C2_Witness ==
    /\ batch_pc = "returned"
    /\ Len(files) = 3
    /\ \E j, k, l \in 1..Len(results) :
        /\ results[j].result.kind = "Ok"
        /\ results[k].result = Err("InvalidUuid")
        /\ results[l].result = Err("HttpError500")

\* C5 as stated: with ignore_existing off no asset id is upserted by more
\* than one pipeline run.
C5_OneUpsertPerAsset_AsStated ==
    ~ignore_existing => \A a \in Assets : upserts[a] <= 1

(***************************************************************************)
(* Properties of the watcher                                               *)
(***************************************************************************)
TasksOf(f) == {t \in tasks : EventFilename(t.path) = f}

\* C3: in monitor mode no filename ever has two spawned tasks at once, however
\* many qualifying events arrive for it while its run is in flight.
C3_OneTaskPerFilename ==
    \A p \in EventPaths : Cardinality(TasksOf(EventFilename(p))) <= 1

\* five qualifying events were handled for a filename whose run is in flight
C3_Witness ==
    \E t \in RunningTasks :
        burst.file = EventFilename(t.path) /\ burst.count >= 5

(***************************************************************************)
(* Properties across the batch run and the watcher                         *)
(***************************************************************************)
\* the batch runs that are inside the pipeline for path p
BatchRunsOf(p) == {i \in InProgress : files[i] = p}

\* the watcher's tasks that are inside the pipeline for path p, past the
\* stability wait
PipelineTasksOf(p) ==
    {t \in tasks : t.path = p /\ t.pc \in {"dupcheck", "analyze", "upsert"}}

\* C4 as stated: no file has two pipeline runs at once, whichever of the batch
\* run and the watcher started them.
C4_OneRunPerFile_AsStated ==
    \A p \in Paths :
        Cardinality(BatchRunsOf(p)) + Cardinality(PipelineTasksOf(p)) <= 1

(***************************************************************************)
(* Properties of the pipeline runs                                         *)
(***************************************************************************)
\* C11 as stated: the marks are shared by the runs of a process. When a run
\* starts after another one, the host its first selection returns at that
\* instant is not a host the earlier run left marked and unexpired, as long
\* as the pool has a host without such a mark.
C11_MarksSharedAcrossRuns_AsStated ==
    [][(runs_started' = runs_started + 1) =>
        LET left == Retain(unavailable_hosts, now, unavailable_duration)
            next == HostChoices(hosts, Retain(unavailable_hosts', now',
                                              unavailable_duration))
        IN  (\E g \in Range(hosts) : g \notin DOMAIN left)
                => \A h \in DOMAIN left : h \notin next]_vars

(***************************************************************************)
(* Properties of the stability wait                                        *)
(***************************************************************************)
\* the latest three polls all observed the same non-zero size
ThreeEqualPolls ==
    /\ Len(polled) = 3
    /\ polled[1] > 0
    /\ polled[2] = polled[1]
    /\ polled[3] = polled[1]

\* C12 as stated: once three consecutive polls have observed the same
\* non-zero size, and the timeout has not elapsed, the wait is over.
C12_ThreeEqualPollsEndWait_AsStated ==
    (ThreeEqualPolls /\ Elapsed < file_write_timeout)
        => new_file_pc \notin {"loop", "sleep"}

\* C13: a call that leaves the wait without having counted three stable polls
\* returns FileWriteTimeout and has made no store query, no host selection, no
\* backend call and no upsert.
C13_TimeoutSkipsPipeline ==
    (new_file_pc \notin {"off", "loop", "sleep"} /\ stable_count < StablePolls)
        => /\ new_file_pc \in {"check", "done"}
           /\ new_file_pc = "done" => new_file_result = Err("FileWriteTimeout")
           /\ run_did = {}

\* a call returned FileWriteTimeout after three polls that each found the
\* size changed
C13_Witness ==
    /\ new_file_pc = "done"
    /\ new_file_result = Err("FileWriteTimeout")
    /\ file_write_timeout > 0
    /\ Len(polled) = 3
    /\ polled[1] > 0 /\ polled[2] > 0 /\ polled[3] > 0
    /\ polled[1] # polled[2]
    /\ polled[2] # polled[3]

(***************************************************************************)
(* Properties of the debounce                                              *)
(***************************************************************************)
Filenames == {EventFilename(p) : p \in EventPaths}

\* this step is the watch loop handling a qualifying event for filename f
HandlesEventFor(f) ==
    /\ mon_pc = "drain"
    /\ event_rx # <<>>
    /\ event_rx' = Tail(event_rx)
    /\ Qualifies(Head(event_rx))
    /\ EventFilename(Head(event_rx).path) = f

\* this step hands f to the pipeline: one new task, f enters the in-flight
\* set, and its debounce entry is set to the present
Dispatches(f) ==
    /\ \E t \in tasks' \ tasks :
        /\ tasks' = tasks \cup {t}
        /\ EventFilename(t.path) = f
        /\ t.pc = "stability"
    /\ processing_files' = processing_files \cup {f}
    /\ f \in DOMAIN last_events' /\ last_events'[f] = now

\* C14: a qualifying event for a filename without a debounce entry and not in
\* flight is dispatched, and a qualifying event that comes less than the
\* cooldown after the entry's time is suppressed: no task, no change of the
\* in-flight set or of the entry.
C14_SecondEventInCooldownSuppressed ==
    [][\A f \in Filenames : HandlesEventFor(f) =>
        /\ (f \notin DOMAIN last_events /\ f \notin processing_files)
              => Dispatches(f)
        /\ (f \in DOMAIN last_events /\ now - last_events[f] < event_cooldown)
              => UNCHANGED <<tasks, processing_files, last_events>>]_vars

\* the watch loop is about to handle a second event for a filename whose first
\* event was dispatched less than the cooldown ago and whose run has ended
C14_Witness ==
    /\ mon_pc = "drain"
    /\ event_rx # <<>>
    /\ Qualifies(Head(event_rx))
    /\ LET f == EventFilename(Head(event_rx).path)
       IN  /\ f \in DOMAIN last_events
           /\ now - last_events[f] < event_cooldown
           /\ f \notin processing_files
           /\ upserts[AssetOf(Head(event_rx).path)] > 0

\* C15: a qualifying event for f that is handled at least the cooldown after
\* f's last admitted event, while f is not in flight, is dispatched.
C15_EventAfterCooldownDispatched ==
    [][\A f \in Filenames : HandlesEventFor(f) =>
        ((f \in DOMAIN last_events /\ now - last_events[f] >= event_cooldown
          /\ f \notin processing_files) => Dispatches(f))]_vars

\* the watch loop is about to handle an event for a filename that has an entry
\* exactly one non-zero cooldown old and is not in flight
C15_Witness ==
    /\ mon_pc = "drain"
    /\ event_rx # <<>>
    /\ Qualifies(Head(event_rx))
    /\ event_cooldown > 0
    /\ LET f == EventFilename(Head(event_rx).path)
       IN  /\ f \in DOMAIN last_events
           /\ now - last_events[f] = event_cooldown
           /\ f \notin processing_files

(***************************************************************************)
(* Properties of the shutdown                                              *)
(***************************************************************************)
\* C16 as stated: the process does not end while a spawned run is still
\* inside process_new_file; every run in flight at the stop has returned
\* before the exit.
C16_RunsFinishBeforeExit_AsStated ==
    process = "exited" => RunningTasks = {}

(***************************************************************************)
(* Properties of the duplicate check and of the persist step               *)
(***************************************************************************)
\* C17 as stated: the store is queried exactly when ignore_existing is off,
\* and before the analysis; a run whose query found a description ends with
\* AlreadyProcessed, without a backend call or an upsert; with
\* ignore_existing on a successful run leaves its description in the store.
C17_DuplicateCheckIffNotIgnoring_AsStated ==
    /\ "query" \in run_did => ~ignore_existing
    /\ (/\ ~ignore_existing
        /\ \/ new_file_pc \in {"analyze", "upsert"}
           \/ run_did \cap {"select", "call", "upsert"} # {})
          => "query" \in run_did
    /\ (/\ new_file_pc = "done"
        /\ "query" \in run_did
        /\ "upsert" \notin run_did
        /\ new_file_result # Err("DatabaseError")
        /\ asset_has_description(store, AssetOf(image_path)))
          => /\ new_file_result = Err("AlreadyProcessed")
             /\ run_did = {"query"}
    /\ (ignore_existing /\ new_file_pc = "done" /\ new_file_result.kind = "Ok")
          => store[AssetOf(image_path)] = analysis.description

\* C18: a batch run whose upsert fails after a successful analysis completes
\* with DatabaseError and leaves the store as it was, and a completed run
\* takes no further step: no second upsert, no further backend call.
C18_FailedUpsertIsDatabaseError ==
    [][\A i \in 1..Len(files) :
        /\ (/\ brun[i].pc = "upsert"
            /\ brun'[i].pc = "complete"
            /\ upserts[AssetOf(files[i])] < MaxUpserts
            /\ upserts' = upserts)
              => /\ brun'[i].result = Err("DatabaseError")
                 /\ store' = store
        /\ (i \in 1..Len(brun) /\ brun[i].pc = "complete")
              => (Len(brun') = Len(brun) /\ brun'[i] = brun[i])]_vars

\* a returned batch that never queried the store and holds a DatabaseError:
\* the error of an upsert
C18_Witness ==
    /\ batch_pc = "returned"
    /\ ignore_existing
    /\ \E k \in 1..Len(results) : results[k].result = Err("DatabaseError")

(***************************************************************************)
(* Properties of extract_uuid_from_preview_filename and display_results    *)
(***************************************************************************)
\* the positions of the name where a canonical identifier stands
IdentifiersAt(parts) == {i \in 1..Len(parts) : parts[i] \in Assets}
\* ... followed by the marker "-preview.jpg"
MarkedAt(parts) ==
    {i \in IdentifiersAt(parts) :
        /\ i + 2 <= Len(parts)
        /\ parts[i + 1] = "-preview"
        /\ parts[i + 2] = ".jpg"}
\* ... followed by "-preview"
PreviewAt(parts) ==
    {i \in IdentifiersAt(parts) : i + 1 <= Len(parts) /\ parts[i + 1] = "-preview"}

\* C19 as stated: a name with a canonical identifier followed by the marker
\* -preview.jpg resolves to that identifier; a name without the marker, or
\* without a canonical identifier, yields InvalidUuid.
C19_ExactlyTheEncodedIdentifier_AsStated ==
    util_pc = "done" /\ asset_id # "None" =>
        /\ MarkedAt(filename) # {}
              => \E i \in MarkedAt(filename) : asset_id = filename[i]
        /\ (MarkedAt(filename) = {} \/ IdentifiersAt(filename) = {})
              => asset_id = "InvalidUuid"

\* C19, amended: the result is InvalidUuid exactly when the name holds no
\* canonical identifier, with or without the marker; otherwise it is an
\* identifier that stands in the name: the leftmost one followed by
\* "-preview" when there is one, else the leftmost one.
C19_AnIdentifierOfTheName ==
    util_pc = "done" /\ asset_id # "None" =>
        /\ asset_id = "InvalidUuid" <=> IdentifiersAt(filename) = {}
        /\ PreviewAt(filename) # {}
              => asset_id = filename[Min(PreviewAt(filename))]
        /\ (PreviewAt(filename) = {} /\ IdentifiersAt(filename) # {})
              => asset_id = filename[Min(IdentifiersAt(filename))]

\* a name with an identifier and no "-preview" at all, resolved to the
\* identifier
C19_Witness ==
    /\ util_pc = "done"
    /\ asset_id \in Assets
    /\ \A i \in 1..Len(filename) : filename[i] # "-preview"

\* the entries of the list whose result is one of rs
ResultsIn(rs) == {k \in 1..Len(results) : results[k].result \in rs}
SkipValues == {Err("AlreadyProcessed"), Err("InvalidUuid")}

\* C20: after display_results, successful is the number of Ok results, skipped
\* the number of AlreadyProcessed and InvalidUuid results, failed the number of
\* all other errors, and the three add up to the length of the list.
C20_EveryOutcomeCountedOnce ==
    util_pc = "done" /\ asset_id = "None" =>
        /\ successful = Cardinality({k \in 1..Len(results) :
                                        results[k].result.kind = "Ok"})
        /\ skipped = Cardinality(ResultsIn(SkipValues))
        /\ failed = Cardinality({k \in 1..Len(results) :
                                    /\ results[k].result.kind = "Err"
                                    /\ results[k].result \notin SkipValues})
        /\ successful + failed + skipped = Len(results)

\* a list with a success, a DatabaseError and both kinds of skip was counted
C20_Witness ==
    /\ util_pc = "done"
    /\ Len(results) = 3
    /\ ResultsIn({Err("InvalidUuid")}) # {}
    /\ ResultsIn({Err("DatabaseError")}) # {}
    /\ ResultsIn({Ok(<<"a">>)}) # {}
    /\ successful = 1 /\ failed = 1 /\ skipped = 1

(***************************************************************************)
(* Properties of the lock of the unavailability map                        *)
(***************************************************************************)
\* C24: the map changes only in a step of a task that holds the lock; at
\* most one task holds it; a task inside a manager function holds it, and a
\* task that waits for the POST, or is anywhere else outside the manager,
\* does not.
C24_MapOnlyUnderItsLock ==
    /\ [](/\ Cardinality(guards) <= 1
          /\ \A t \in Tasks :
                /\ callers[t].pc \in InsideManager => t \in guards
                /\ callers[t].pc \in {"get", "send", "mark", "done"}
                      => t \notin guards)
    /\ [][unavailable_hosts' # unavailable_hosts =>
            \E t \in guards :
                /\ callers[t].pc \in InsideManager
                /\ callers'[t].pc # callers[t].pc
                /\ \A o \in Tasks \ {t} : callers'[o] = callers[o]]_vars

\* one task holds the lock while the other waits for its POST and a third
\* step is due: the lock is not what the waiting task waits for
C24_Witness ==
    /\ guards = {"t1"}
    /\ callers["t1"].pc = "mark_locked"
    /\ callers["t2"].pc = "send"

\* C25: a mark sets the host's time to the current time whether or not the
\* host was marked before; while a host stays marked its time never
\* decreases, so the end of its window never moves earlier.
C25_MarkSetsNowNeverEarlier ==
    [][/\ \A t \in Tasks :
            (callers[t].pc = "mark_locked" /\ callers'[t].pc = "mark_return")
                => /\ callers[t].host \in DOMAIN unavailable_hosts'
                   /\ unavailable_hosts'[callers[t].host] = now
       /\ \A h \in DOMAIN unavailable_hosts \cap DOMAIN unavailable_hosts' :
            /\ unavailable_hosts'[h] >= unavailable_hosts[h]
            /\ unavailable_hosts'[h] + unavailable_duration
                    >= unavailable_hosts[h] + unavailable_duration]_vars

\* the second mark of one failure has just been made, after time has passed
\* and before any mark can have expired: the host was marked already
C25_Witness ==
    /\ interface = "Llamacpp"
    /\ unavailable_duration = MaxDuration
    /\ now = 1
    /\ \E t \in Tasks :
        /\ callers[t].pc = "mark_return"
        /\ callers[t].marks = 1
        /\ unavailable_hosts[callers[t].host] = now

\* C26: for every batch and every max_concurrent that Args accepts, with
\* every run terminating, process_files_concurrently returns (or the
\* process has left before it, when there is no file).
C26_RunAllTerminates_AsStated == <>(batch_pc = "returned" \/ process = "exited")

(***************************************************************************)
(* Properties of the watch loop                                            *)
(***************************************************************************)
\* the tasks of a state that have just been spawned
Spawned(ts) == {t \in ts : t.pc = "stability"}

\* C27: the loop leaves only from select!, between two ticks, and with the
\* signal received; a drain that has begun ends only with the queue empty
\* and leads back to select!; once the loop has left, no step spawns a task
\* or changes the in-flight set by more than a removal, the debounce map or
\* the queue.
C27_StopOnlyBetweenTicks ==
    [][/\ (mon_pc # "stopped" /\ mon_pc' = "stopped")
            => /\ mon_pc = "select"
               /\ stop_signal
               /\ UNCHANGED <<event_rx, tasks, processing_files, last_events>>
       /\ (mon_pc = "drain" /\ mon_pc' # "drain")
            => event_rx = <<>> /\ mon_pc' = "select"
       /\ mon_pc = "stopped"
            => /\ mon_pc' = "stopped"
               /\ Spawned(tasks') \subseteq Spawned(tasks)
               /\ processing_files' \subseteq processing_files
               /\ UNCHANGED <<event_rx, last_events>>]_vars

\* the signal has arrived in the middle of a drain that still has a
\* qualifying event to handle
C27_Witness ==
    /\ mon_pc = "drain"
    /\ stop_signal
    /\ event_rx # <<>>
    /\ Qualifies(Head(event_rx))
    /\ ~InCooldown(last_events, EventFilename(Head(event_rx).path), now)
    /\ EventFilename(Head(event_rx).path) \notin processing_files

\* C28: the watch loop handling a qualifying event inside the cooldown of
\* its filename leaves the debounce map, the in-flight set, the tasks and
\* the store as they are; an entry of the debounce map is written only by an
\* event outside the cooldown, with the time of that event, so the cooldown
\* of a filename runs from its last admitted event.
C28_SuppressedEventChangesNothing ==
    [][/\ \A f \in Filenames :
            (/\ HandlesEventFor(f)
             /\ f \in DOMAIN last_events
             /\ now - last_events[f] < event_cooldown)
                => UNCHANGED <<last_events, processing_files, tasks, db_vars>>
       /\ \A f \in DOMAIN last_events' :
            (f \notin DOMAIN last_events \/ last_events'[f] # last_events[f])
                => /\ HandlesEventFor(f)
                   /\ f \in DOMAIN last_events
                        => now - last_events[f] >= event_cooldown
                   /\ last_events'[f] = now]_vars

\* an event for a filename has been suppressed after the clock moved on from
\* the admitted one, the entry still holds the time of the admitted event,
\* and the next event for the filename comes exactly when the cooldown ends
C28_Witness ==
    /\ mon_pc = "drain"
    /\ event_rx # <<>>
    /\ Qualifies(Head(event_rx))
    /\ event_cooldown >= 2
    /\ LET f == EventFilename(Head(event_rx).path)
       IN  /\ burst.file = f
           /\ burst.count >= 1
           /\ f \in DOMAIN last_events
           /\ last_events[f] = 0
           /\ now = event_cooldown

(***************************************************************************)
(* Properties of the in-flight set                                         *)
(***************************************************************************)
\* the positions of a task inside process_new_file
InsideRun == {"stability", "dupcheck", "analyze", "upsert"}

\* C29: the in-flight set holds exactly the filenames of the spawned tasks
\* that have not finished; a task whose process_new_file returns, with any
\* outcome, goes to the removal of its filename; and while the process runs
\* every filename in the set is removed in the end.
C29_InFlightWhileTaskLives ==
    /\ [](processing_files = {EventFilename(t.path) : t \in tasks})
    /\ [][\A t \in tasks : \A u \in tasks' \ tasks :
            (t \notin tasks' /\ u.id = t.id /\ u.path = t.path
             /\ t.pc \in InsideRun /\ u.pc \notin InsideRun)
                => u.pc = "remove"]_vars
    /\ \A f \in Filenames :
            [](f \in processing_files
                 => <>(f \notin processing_files \/ process = "exited"))

\* a run has returned without a description written, by a timeout, a skip or
\* a failure, and its task is about to remove the filename
C29_Witness ==
    /\ upserts = [a \in Assets |-> 0]
    /\ \E t \in tasks :
        /\ t.pc = "remove"
        /\ EventFilename(t.path) \in processing_files

\* C30 as stated: the filename enters the in-flight set only after its
\* stability wait has ended as stable; a filename whose task is in the
\* stability wait is not in the set.
C30_InFlightOnlyAfterStable_AsStated ==
    \A t \in tasks :
        t.pc = "stability" => EventFilename(t.path) \notin processing_files

\* C30: the in-flight check and the insertion happen in the watch loop, in
\* the step that spawns the task and before the stability wait, which runs
\* inside the task: a filename enters the set only in a step that handles an
\* event for it, finds it absent and spawns its task at the stability wait,
\* and a filename whose task is in the stability wait is in the set.
C30_InFlightFromSpawnOn ==
    /\ [](\A t \in tasks :
            t.pc = "stability" => EventFilename(t.path) \in processing_files)
    /\ [][\A f \in processing_files' \ processing_files :
            /\ HandlesEventFor(f)
            /\ \E t \in tasks' \ tasks :
                /\ tasks' = tasks \cup {t}
                /\ EventFilename(t.path) = f
                /\ t.pc = "stability"
            /\ \A t \in tasks : EventFilename(t.path) # f]_vars

\* a task is in its stability wait and the watch loop is about to handle a
\* further event for the same filename that is outside the cooldown
C30_Witness ==
    /\ mon_pc = "drain"
    /\ event_rx # <<>>
    /\ Qualifies(Head(event_rx))
    /\ ~InCooldown(last_events, EventFilename(Head(event_rx).path), now)
    /\ \E t \in tasks :
        /\ t.pc = "stability"
        /\ t.path = Head(event_rx).path
        /\ EventFilename(t.path) \in processing_files

(***************************************************************************)
(* Properties of the event filter                                          *)
(***************************************************************************)
\* this step is one round of the drain: the head of the queue is taken
HandlesHead ==
    /\ mon_pc = "drain"
    /\ event_rx # <<>>
    /\ event_rx' = Tail(event_rx)

\* the event is a create or a data-modify event for a name with the marker
Eligible(e) ==
    /\ e.kind \in {"create", "modify_data"}
    /\ EventFilename(e.path) # "a2-thumbnail.webp"

\* C31: the handling of an event of another kind, or for a name without the
\* preview marker, leaves the debounce map, the in-flight set and the tasks
\* unchanged; the debounce map is written, a filename enters the in-flight
\* set and a task is spawned only in the handling of a create or data-modify
\* event for a name with the marker.
C31_OnlyEligibleEventsChangeWatcher ==
    [][/\ (HandlesHead /\ ~Eligible(Head(event_rx)))
            => UNCHANGED <<last_events, processing_files, tasks, db_vars>>
       /\ (\/ last_events' # last_events
           \/ processing_files' \ processing_files # {}
           \/ \E t \in tasks' \ tasks : t.pc = "stability")
            => HandlesHead /\ Eligible(Head(event_rx))]_vars

\* the watch loop is about to handle an event of another kind for a preview
\* file that has no debounce entry and is not in flight
C31_Witness ==
    /\ mon_pc = "drain"
    /\ event_rx # <<>>
    /\ Head(event_rx).kind = "other"
    /\ HasMarker(EventFilename(Head(event_rx).path))
    /\ EventFilename(Head(event_rx).path) \notin DOMAIN last_events
    /\ EventFilename(Head(event_rx).path) \notin processing_files

(***************************************************************************)
(* Properties of the order of the steps of a pipeline run                  *)
(***************************************************************************)
\* C32: the store is queried before any host is selected or called and
\* before the upsert; a host is selected or called only after the duplicate
\* check has answered (when it is made at all) and the file has been read,
\* and never after the upsert; the upsert is made only after analyze_image
\* has returned a description from a call of this run; and after the upsert
\* the run neither queries, calls nor writes again.
C32_StepsInOrder ==
    [][/\ ("query" \in run_did' \ run_did)
            => selects = 0 /\ log = <<>> /\ pc = "off" /\ "upsert" \notin run_did
       /\ (selects' # selects \/ log' # log)
            => /\ ignore_existing \/ "query" \in run_did
               /\ new_file_pc = "analyzing"
               /\ image = "ok"
               /\ "upsert" \notin run_did
       /\ ("upsert" \in run_did' \ run_did)
            => /\ analysis.kind = "Ok"
               /\ analysis = outcome
               /\ log # <<>>
               /\ attempt_err = "None"
               /\ "call" \in run_did
               /\ pc = "off"
       /\ "upsert" \in run_did
            => UNCHANGED <<run_did, log, selects, db_vars>>]_vars

\* a run with the duplicate check on has queried the store, failed on one
\* host, got a description from the next one and written it
C32_Witness ==
    /\ ~ignore_existing
    /\ new_file_pc = "done"
    /\ run_did = {"query", "select", "call", "upsert"}
    /\ Len(log) = 2
    /\ upserts[AssetOf(image_path)] = 1

(***************************************************************************)
(* Properties of the deadline of an attempt                                *)
(***************************************************************************)
\* C33 as stated: an attempt whose response has not come by the ceiling of
\* timeout + 1 gets the RequestTimeout error of its interface, in batch mode
\* as in monitor mode.
C33_LateAttemptIsRequestTimeout_AsStated ==
    (post.pc = "classified" /\ Late(post.took, post.timeout + 1))
        => attempt_err = TimeoutError(interface)

(***************************************************************************)
(* Properties of the parse of a response                                   *)
(***************************************************************************)
\* the attempt got a response with a success status and read its body
SuccessBody ==
    post.pc = "classified" /\ response.kind \in {"body", "no_choices"}

\* the strict or the fallback parse finds a content that is not blank
HasText ==
    /\ response.kind = "body"
    /\ response.parse \in {"strict", "fallback"}
    /\ \E k \in 1..Len(response.content) : response.content[k] # " "

\* the body has the expected shape: the strict parse does not fail
StrictlyParsed ==
    \/ response.kind = "body" /\ response.parse = "strict"
    \/ response.kind = "no_choices" /\ interface = "Llamacpp"

\* C34 as stated: with a success status the attempt returns a description
\* exactly when one of the parses finds a text that is not blank, and
\* otherwise its error is EmptyResponse.
C34_NoTextIsEmptyResponse_AsStated ==
    SuccessBody =>
        /\ outcome.kind = "Ok" <=> HasText
        /\ ~HasText => attempt_err = "EmptyResponse"

\* C34: with a success status the attempt returns a description, the trimmed
\* text, exactly when one of the parses finds a text that is not blank;
\* otherwise its error is EmptyResponse when the strict parse went through
\* (blank content, or no choice in a llama.cpp response) and JsonParsing
\* when the strict parse failed and the fallback found no text.
C34_NoTextIsEmptyOrJsonParsing ==
    SuccessBody =>
        /\ outcome.kind = "Ok" <=> HasText
        /\ HasText =>
            /\ outcome.description # <<>>
            /\ Head(outcome.description) # " "
            /\ outcome.description[Len(outcome.description)] # " "
            /\ attempt_err = "None"
        /\ ~HasText =>
            /\ outcome.kind = "None"
            /\ attempt_err = IF StrictlyParsed THEN "EmptyResponse"
                              ELSE "JsonParsing"

\* the strict parse failed and the fallback found a content that is blank
C34_Witness ==
    /\ SuccessBody
    /\ response.kind = "body"
    /\ response.parse = "fallback"
    /\ response.content = <<" ">>
    /\ attempt_err = "JsonParsing"

(***************************************************************************)
(* Properties of the choice of the backend variant                         *)
(***************************************************************************)
\* C35 as stated: a run that is sending its POST, or marking the host of a
\* failed one, is inside the analyze_image of the configured interface; a
\* timeout of the attempt is the timeout error of that interface.
C35_RunCallsConfiguredVariant_AsStated ==
    /\ pc \in {"send", "mark1", "mark2"} => Variant = interface
    /\ attempt_err \in {"OllamaRequestTimeout", "LlamaCppRequestTimeout"}
            => attempt_err = TimeoutError(interface)

(***************************************************************************)
(* Properties of a run on a file of length zero                            *)
(***************************************************************************)
\* the run has entered analyze_image and the file it looks at has length 0
ZeroLengthRun == file_size = 0 /\ runs_started > 0

\* C36: a run whose analyze_image meets a file of length zero selects no
\* host, makes no backend call, marks no host, makes no upsert and no second
\* attempt, and its result is EmptyFile.
C36_EmptyFileEndsRunUntouched ==
    ZeroLengthRun =>
        /\ selects = 0
        /\ log = <<>>
        /\ attempt = 0
        /\ runs_started = 1
        /\ unavailable_hosts = EmptyMap
        /\ upserts = [a \in Assets |-> 0]
        /\ run_did \cap {"select", "call", "upsert"} = {}
        /\ outcome = Err("EmptyFile")
        /\ new_file_pc \in {"analyzing", "done"}
        /\ new_file_pc = "done" => new_file_result = Err("EmptyFile")

\* such a run has returned, with hosts in the pool it could have used
C36_Witness ==
    /\ ZeroLengthRun
    /\ Len(hosts) > 0
    /\ new_file_pc = "done"
    /\ new_file_result = Err("EmptyFile")

(***************************************************************************)
(* Properties of the watcher beside the batch scan                         *)
(***************************************************************************)
\* C37 as stated: in combined mode the watcher is ended by a termination
\* signal only; whatever the batch scan finds, the process is running until
\* a signal has arrived.
C37_BatchNeverStopsWatcher_AsStated ==
    (mode = "combined" /\ process = "exited") => stop_signal

(***************************************************************************)
(* Properties of an event turned away by the in-flight guard               *)
(***************************************************************************)
\* the debounce entry of f is younger than the cooldown
Cooling(f) == f \in DOMAIN last_events /\ now - last_events[f] < event_cooldown

\* C38: an event for f outside the cooldown while f is in flight sets the
\* debounce entry of f to the present, leaves the in-flight set, the tasks
\* and the store alone; an event within the cooldown of that entry is
\* suppressed, with nothing changed and nothing dispatched, also when the run
\* has ended and f is in flight no more.
C38_GuardRejectedEventRestartsCooldown ==
    [][\A f \in Filenames :
        /\ (HandlesEventFor(f) /\ ~Cooling(f) /\ f \in processing_files)
            => /\ f \in DOMAIN last_events'
               /\ last_events'[f] = now
               /\ guard_note' = "rejected"
               /\ UNCHANGED <<processing_files, tasks, db_vars>>
        /\ (HandlesEventFor(f) /\ guard_note \in {"rejected", "suppressed"}
                /\ Cooling(f))
            => UNCHANGED <<last_events, processing_files, tasks, db_vars>>
        /\ (guard_note' = "suppressed" /\ guard_note = "rejected")
            => /\ HandlesEventFor(f) => Cooling(f) /\ f \notin processing_files
               /\ UNCHANGED <<last_events, processing_files, tasks, db_vars>>]_vars

\* an event has been suppressed inside the cooldown that a guard-rejected
\* event started, after the run of the file had ended
C38_Witness ==
    /\ guard_note = "suppressed"
    /\ processing_files = {}
    /\ tasks = {}
    /\ \E f \in Filenames : Cooling(f) /\ last_events[f] > 0

(***************************************************************************)
(* Properties of the pool and the keys of the unavailability map           *)
(***************************************************************************)
\* C39: while analyze_image uses a manager, the list of addresses of the
\* manager stays the one it was built with, every key of the unavailability
\* map is an address of that list, and a key enters the map only as the host
\* that get_available_host returned for the attempt under way.
C39_PoolFixedAndKeysInPool ==
    [][/\ hosts' = hosts
       /\ DOMAIN unavailable_hosts' \subseteq Range(hosts)
       /\ \A h \in DOMAIN unavailable_hosts' \ DOMAIN unavailable_hosts :
            /\ h = host
            /\ pc \in {"mark1", "mark2"}
            /\ log # <<>> /\ log[Len(log)] = h
       /\ host' \in Range(hosts) \cup {"NoHost"}]_vars

\* every address of a pool of several different hosts has been marked
C39_Witness ==
    /\ pc = "done"
    /\ Cardinality(Range(hosts)) >= 2
    /\ DOMAIN unavailable_hosts = Range(hosts)
    /\ outcome.kind = "Err"

(***************************************************************************)
(* Properties of what is written to the store                              *)
(***************************************************************************)
\* d is the text c without the whitespace at its two ends, and is not empty
TrimmedTextOf(d, c) ==
    /\ d # <<>>
    /\ d[1] # " "
    /\ d[Len(d)] # " "
    /\ \E i \in 1..Len(c) :
        /\ i + Len(d) - 1 <= Len(c)
        /\ d = SubSeq(c, i, i + Len(d) - 1)
        /\ \A k \in 1..Len(c) : (k < i \/ k > i + Len(d) - 1) => c[k] = " "

\* this step of the run calls update_or_create_asset_description
CallsUpsert == "upsert" \in run_did' \ run_did

\* C40: an upsert is made only after analyze_image of the same run returned
\* a description, which is the non-empty trimmed text of the body of the
\* successful response of that run's last call; what the store then holds
\* for the asset id of the file's name is that text, and no other entry of
\* the store changes.
C40_UpsertedIsTrimmedResponseOfRun ==
    [][/\ CallsUpsert =>
            /\ analysis.kind = "Ok"
            /\ outcome = analysis
            /\ "call" \in run_did
            /\ log # <<>>
            /\ attempt_err = "None"
            /\ response.kind = "body"
            /\ response.parse \in {"strict", "fallback"}
            /\ TrimmedTextOf(analysis.description, response.content)
            /\ AssetOf(image_path) \in Assets
            /\ store' \in {store, [store EXCEPT ![AssetOf(image_path)] =
                                                  analysis.description]}
       /\ db_vars' # db_vars =>
            /\ CallsUpsert
            /\ store'[AssetOf(image_path)] = analysis.description
            /\ upserts'[AssetOf(image_path)] > upserts[AssetOf(image_path)]]_vars

\* the store holds the trimmed text of a response that had whitespace
\* around it
C40_Witness ==
    /\ new_file_pc = "done"
    /\ "upsert" \in run_did
    /\ new_file_result.kind = "Ok"
    /\ response.kind = "body"
    /\ Len(response.content) > Len(analysis.description)
    /\ store[AssetOf(image_path)] = analysis.description
    /\ upserts[AssetOf(image_path)] = 1

====
